---- MODULE Spec2Model ----
(***************************************************************************)
(* The output-parsing and metric-normalisation engine of ipmitool_exporter *)
(* (collector.go).  Text is modelled as TLA+ strings read one character at *)
(* a time; every parser is an operator that walks the text the way the Go  *)
(* code does, and every call is one action of the state machine.           *)
(***************************************************************************)
EXTENDS Integers, Sequences, FiniteSets, TLC

VARIABLES pc, op, arg, ret, ch, logs

vars == <<pc, op, arg, ret, ch, logs>>

(***************************************************************************)
(* Bounds of the model.                                                    *)
(***************************************************************************)
\* the largest number of fixture lines joined into one text blob
MaxLines == 2

\* the longest list of collectors a configuration has
MaxCollectors == 2

\* the scrape requests in progress at the same time
MaxRequests == 2

(***************************************************************************)
(* Characters and strings.                                                 *)
(***************************************************************************)
Ch(s, i) == SubSeq(s, i, i)

Drop(s, n) == SubSeq(s, n + 1, Len(s))

Take(s, n) == SubSeq(s, 1, n)

LowerAlphabet == "abcdefghijklmnopqrstuvwxyz"

UpperAlphabet == "ABCDEFGHIJKLMNOPQRSTUVWXYZ"

DigitAlphabet == "0123456789"

\* index of the one-character string c in s, 0 when absent
RECURSIVE IndexFrom(_, _, _)
IndexFrom(s, c, i) ==
    IF i > Len(s) THEN 0
    ELSE IF Ch(s, i) = c THEN i
    ELSE IndexFrom(s, c, i + 1)

IndexByte(s, c) == IndexFrom(s, c, 1)

IsDigit(c) == IndexByte(DigitAlphabet, c) > 0

\* strconv's lower(c): an ASCII letter in lower case, anything else unchanged
Lower(c) ==
    LET u == IndexByte(UpperAlphabet, c)
    IN  IF u > 0 THEN Ch(LowerAlphabet, u) ELSE c

RECURSIVE LowerStr(_)
LowerStr(s) == IF s = "" THEN "" ELSE Lower(Ch(s, 1)) \o LowerStr(Drop(s, 1))

\* regexp's \s : [\t\n\f\r ]
IsSpace(c) == c \in {" ", "\t", "\n", "\f", "\r"}

HasPrefix(s, p) == Len(s) >= Len(p) /\ Take(s, Len(p)) = p

\* strings.ReplaceAll(s, " ", "")
RECURSIVE RemoveSpaces(_)
RemoveSpaces(s) ==
    IF s = "" THEN ""
    ELSE IF Ch(s, 1) = " " THEN RemoveSpaces(Drop(s, 1))
    ELSE Ch(s, 1) \o RemoveSpaces(Drop(s, 1))

\* strings.Split(s, sep) for a one-character separator: always at least one field
RECURSIVE Split(_, _)
Split(s, sep) ==
    LET i == IndexByte(s, sep)
    IN  IF i = 0 THEN <<s>>
        ELSE <<Take(s, i - 1)>> \o Split(Drop(s, i), sep)

\* bufio.ScanLines' dropCR
DropCR(s) == IF Len(s) > 0 /\ Ch(s, Len(s)) = "\r" THEN Take(s, Len(s) - 1) ELSE s

\* fault: the text is cut at every "\n" as strings.Split cuts it, which
\* yields an empty last token for an empty text and after a final "\n"
RECURSIVE ScanLinesSplit(_)
ScanLinesSplit(s) ==
    LET i == IndexByte(s, "\n")
    IN  IF i = 0 THEN <<DropCR(s)>>
        ELSE <<DropCR(Take(s, i - 1))>> \o ScanLinesSplit(Drop(s, i))

\* the tokens bufio.Scanner yields with the default split function ScanLines
RECURSIVE ScanLines(_)
ScanLines(s) ==
    IF s = "" THEN <<>>
    ELSE LET i == IndexByte(s, "\n")
         IN  IF i = 0 THEN <<DropCR(s)>>
             ELSE <<DropCR(Take(s, i - 1))>> \o ScanLines(Drop(s, i))

\* strings.Join(lines, "\n")
RECURSIVE JoinLines(_)
JoinLines(ls) ==
    IF ls = <<>> THEN ""
    ELSE IF Len(ls) = 1 THEN ls[1]
    ELSE ls[1] \o "\n" \o JoinLines(Tail(ls))

(***************************************************************************)
(* Numbers.  An unsigned integer of any size is a little-endian sequence  *)
(* of 16-bit limbs without a leading zero limb (0 is <<>>, 31 is <<31>>), *)
(* so that uint64 overflow and the 53-bit float64 mantissa are exact.     *)
(* A float64 is NaN, an infinity, or a number with an integer part (limbs) *)
(* and a decimal fraction (digits, no trailing zero).                      *)
(***************************************************************************)
LimbBase == 2 ^ 16

\* strconv.ParseUint(valueS, 0, 64): the bit size
BitSize == 64

\* the significant bits a float64 holds
MantBits == 53

\* n * b + d on limbs, for 0 < b <= 36 and 0 <= d < LimbBase
RECURSIVE MulAdd(_, _, _)
MulAdd(n, b, d) ==
    IF n = <<>> THEN (IF d = 0 THEN <<>> ELSE <<d>>)
    ELSE LET t == n[1] * b + d
         IN  <<t % LimbBase>> \o MulAdd(Tail(n), b, t \div LimbBase)

\* the bits of a limb value, least significant first, without leading zeros
RECURSIVE SmallBits(_)
SmallBits(x) == IF x = 0 THEN <<>> ELSE <<x % 2>> \o SmallBits(x \div 2)

\* exactly w bits of x, least significant first
RECURSIVE FixedBits(_, _)
FixedBits(x, w) == IF w = 0 THEN <<>> ELSE <<x % 2>> \o FixedBits(x \div 2, w - 1)

\* the bits of a number, least significant first, the last one a 1
RECURSIVE ToBits(_)
ToBits(n) ==
    IF n = <<>> THEN <<>>
    ELSE IF Len(n) = 1 THEN SmallBits(n[1])
    ELSE FixedBits(n[1], 16) \o ToBits(Tail(n))

RECURSIVE BitsValue(_)
BitsValue(b) == IF b = <<>> THEN 0 ELSE b[1] + 2 * BitsValue(Tail(b))

RECURSIVE StripZeroLimbs(_)
StripZeroLimbs(n) ==
    IF n = <<>> THEN <<>>
    ELSE IF n[Len(n)] = 0 THEN StripZeroLimbs(SubSeq(n, 1, Len(n) - 1))
    ELSE n

RECURSIVE PackBits(_)
PackBits(b) ==
    IF b = <<>> THEN <<>>
    ELSE IF Len(b) <= 16 THEN <<BitsValue(b)>>
    ELSE <<BitsValue(SubSeq(b, 1, 16))>> \o PackBits(SubSeq(b, 17, Len(b)))

FromBits(b) == StripZeroLimbs(PackBits(b))

BitLen(n) == Len(ToBits(n))

RECURSIVE IncBits(_)
IncBits(b) ==
    IF b = <<>> THEN <<1>>
    ELSE IF b[1] = 0 THEN <<1>> \o Tail(b)
    ELSE <<0>> \o IncBits(Tail(b))

RECURSIVE Zeros(_)
Zeros(k) == IF k <= 0 THEN <<>> ELSE <<0>> \o Zeros(k - 1)

\* b rounded to its MantBits most significant bits, ties to even (b has more)
RoundBits(b, sticky) ==
    IF b[Len(b) - MantBits] = 1
       /\ (sticky \/ b[Len(b) - MantBits + 1] = 1
           \/ \E i \in 1..(Len(b) - MantBits - 1) : b[i] = 1)
    THEN Zeros(Len(b) - MantBits) \o IncBits(SubSeq(b, Len(b) - MantBits + 1, Len(b)))
    ELSE Zeros(Len(b) - MantBits) \o SubSeq(b, Len(b) - MantBits + 1, Len(b))

RoundOfBits(b, sticky) == IF Len(b) <= MantBits THEN b ELSE RoundBits(b, sticky)

\* the float64 nearest to the integer n (ties to even); sticky: a non-zero
\* part below the integer
RoundToFloat(n, sticky) == FromBits(RoundOfBits(ToBits(n), sticky))

NaN == [k |-> "NaN", neg |-> FALSE, int |-> <<>>, frac |-> ""]

Inf(neg) == [k |-> "Inf", neg |-> neg, int |-> <<>>, frac |-> ""]

Num(neg, int, frac) ==
    [k |-> "num", neg |-> neg /\ (int # <<>> \/ frac # ""), int |-> int, frac |-> frac]

\* a hexadecimal floating-point literal with a 'p' exponent: accepted, value not modelled
HexFloat == [k |-> "hexfloat", neg |-> FALSE, int |-> <<>>, frac |-> ""]

\* a finite float64 of magnitude 10^40 or more: its digits are not modelled
Huge(neg) == [k |-> "huge", neg |-> neg, int |-> <<>>, frac |-> ""]

\* a non-zero float64 of magnitude below 10^-40: its digits are not modelled
Tiny(neg) == [k |-> "tiny", neg |-> neg, int |-> <<>>, frac |-> ""]

IsNaN(v) == v.k = "NaN"

\* float64 of a small non-negative Go integer constant
FloatOfInt(i) == Num(FALSE, FromBits(SmallBits(i)), "")

\* fault: the integer is narrowed to 32 bits before the conversion
FloatOfUintNarrowed(n) ==
    Num(FALSE, StripZeroLimbs(SubSeq(n, 1, IF Len(n) < 2 THEN Len(n) ELSE 2)), "")

\* float64(convValueS)
FloatOfUint(n) == Num(FALSE, RoundToFloat(n, FALSE), "")

(***************************************************************************)
(* strconv.ParseUint(s, 0, 64)                                             *)
(***************************************************************************)
\* the value of a digit character in bases up to 36, -1 for any other character
DigitVal(c) ==
    LET d == IndexByte(DigitAlphabet, c)
        l == IndexByte(LowerAlphabet, Lower(c))
    IN  IF d > 0 THEN d - 1 ELSE IF l > 0 THEN l + 9 ELSE -1

\* strconv's underscoreOK, after the sign and the base prefix; prev is the class
\* of the previous character: "0" digit, "_" underscore, "!" other, "^" start
RECURSIVE UnderscoreScan(_, _, _)
UnderscoreScan(s, hex, prev) ==
    IF s = "" THEN prev # "_"
    ELSE LET c == Ch(s, 1)
         IN  IF IsDigit(c) \/ (hex /\ DigitVal(c) >= 10 /\ DigitVal(c) <= 15)
             THEN UnderscoreScan(Drop(s, 1), hex, "0")
             ELSE IF c = "_"
             THEN prev = "0" /\ UnderscoreScan(Drop(s, 1), hex, "_")
             ELSE prev # "_" /\ UnderscoreScan(Drop(s, 1), hex, "!")

UnderscoreOK(s0) ==
    LET s == IF Len(s0) >= 1 /\ Ch(s0, 1) \in {"-", "+"} THEN Drop(s0, 1) ELSE s0
        pre == Len(s) >= 2 /\ Ch(s, 1) = "0" /\ Lower(Ch(s, 2)) \in {"b", "o", "x"}
    IN  IF pre THEN UnderscoreScan(Drop(s, 2), Lower(Ch(s, 2)) = "x", "0")
        ELSE UnderscoreScan(s, FALSE, "^")

\* the digit loop of ParseUint: [ok, n]; base 0 allows underscores
RECURSIVE UintDigits(_, _, _)
UintNext(s, base, n1) ==
    IF BitLen(n1) > BitSize THEN [ok |-> FALSE, n |-> <<>>]
    ELSE UintDigits(Drop(s, 1), base, n1)

UintDigits(s, base, n) ==
    IF s = "" THEN [ok |-> TRUE, n |-> n]
    ELSE IF Ch(s, 1) = "_" THEN UintDigits(Drop(s, 1), base, n)
    ELSE IF DigitVal(Ch(s, 1)) < 0 \/ DigitVal(Ch(s, 1)) >= base
    THEN [ok |-> FALSE, n |-> <<>>]
    ELSE UintNext(s, base, MulAdd(n, base, DigitVal(Ch(s, 1))))

\* the base ParseUint derives from the prefix of s (s is not empty)
UintBase(s) ==
    IF Ch(s, 1) # "0" THEN 10
    ELSE IF Len(s) >= 3 /\ Lower(Ch(s, 2)) = "b" THEN 2
    ELSE IF Len(s) >= 3 /\ Lower(Ch(s, 2)) = "o" THEN 8
    ELSE IF Len(s) >= 3 /\ Lower(Ch(s, 2)) = "x" THEN 16
    ELSE 8

\* s without that prefix
UintBody(s) ==
    IF Ch(s, 1) # "0" THEN s
    ELSE IF Len(s) >= 3 /\ Lower(Ch(s, 2)) \in {"b", "o", "x"} THEN Drop(s, 2)
    ELSE Drop(s, 1)

UintChecked(s, r) ==
    IF r.ok /\ IndexByte(s, "_") > 0 /\ ~UnderscoreOK(s) THEN [ok |-> FALSE, n |-> <<>>]
    ELSE r

ParseUint(s) ==
    IF s = "" THEN [ok |-> FALSE, n |-> <<>>]
    ELSE UintChecked(s, UintDigits(UintBody(s), UintBase(s), <<>>))

(***************************************************************************)
(* strconv.ParseFloat(s, 64): special values, then readFloat's grammar     *)
(* (sign, digits with at most one '.', optional exponent), the whole       *)
(* string consumed.  A float64 is identified with the shortest decimal     *)
(* that denotes it, which is exact for up to 15 significant digits.        *)
(***************************************************************************)
RECURSIVE CommonPrefixLen(_, _)
CommonPrefixLen(s, p) ==
    IF s = "" \/ p = "" THEN 0
    ELSE IF Lower(Ch(s, 1)) = Ch(p, 1) THEN 1 + CommonPrefixLen(Drop(s, 1), Drop(p, 1))
    ELSE 0

\* strconv's special after the sign: n is the length of the common prefix of
\* the rest with "infinity"
SpecialInf(neg, nsign, n) ==
    IF n = 3 \/ n = 8 THEN [ok |-> TRUE, n |-> nsign + n, v |-> Inf(neg)]
    ELSE [ok |-> FALSE, n |-> 0, v |-> NaN]

InfPrefixLen(m) == IF 3 < m /\ m < 8 THEN 3 ELSE m

\* strconv's special: [ok, n (characters consumed), v]
Special(s) ==
    IF s = "" THEN [ok |-> FALSE, n |-> 0, v |-> NaN]
    ELSE IF Ch(s, 1) \in {"+", "-"}
    THEN SpecialInf(Ch(s, 1) = "-", 1, InfPrefixLen(CommonPrefixLen(Drop(s, 1), "infinity")))
    ELSE IF Ch(s, 1) \in {"i", "I"}
    THEN SpecialInf(FALSE, 0, InfPrefixLen(CommonPrefixLen(s, "infinity")))
    ELSE IF Ch(s, 1) \in {"n", "N"} /\ CommonPrefixLen(s, "nan") = 3
    THEN [ok |-> TRUE, n |-> 3, v |-> NaN]
    ELSE [ok |-> FALSE, n |-> 0, v |-> NaN]

\* readFloat's mantissa loop from position i: the digits before and after the
\* '.', the position it stops at
RECURSIVE ScanMantissa(_, _, _, _, _, _)
ScanMantissa(s, i, hex, sawdot, ip, fp) ==
    IF i > Len(s) THEN [i |-> i, ip |-> ip, fp |-> fp]
    ELSE IF Ch(s, i) = "_" THEN ScanMantissa(s, i + 1, hex, sawdot, ip, fp)
    ELSE IF Ch(s, i) = "." /\ ~sawdot THEN ScanMantissa(s, i + 1, hex, TRUE, ip, fp)
    ELSE IF IsDigit(Ch(s, i)) \/ (hex /\ DigitVal(Ch(s, i)) >= 10 /\ DigitVal(Ch(s, i)) <= 15)
    THEN ScanMantissa(s, i + 1, hex, sawdot,
                      IF sawdot THEN ip ELSE ip \o Ch(s, i),
                      IF sawdot THEN fp \o Ch(s, i) ELSE fp)
    ELSE [i |-> i, ip |-> ip, fp |-> fp]

\* readFloat's exponent digits from position i: [i, e], e capped as in the code
RECURSIVE ScanExponent(_, _, _)
ScanExponent(s, i, e) ==
    IF i > Len(s) THEN [i |-> i, e |-> e]
    ELSE IF Ch(s, i) = "_" THEN ScanExponent(s, i + 1, e)
    ELSE IF IsDigit(Ch(s, i))
    THEN ScanExponent(s, i + 1, IF e < 10000 THEN e * 10 + DigitVal(Ch(s, i)) ELSE e)
    ELSE [i |-> i, e |-> e]

RECURSIVE StripLeadingZeros(_)
StripLeadingZeros(d) ==
    IF d # "" /\ Ch(d, 1) = "0" THEN StripLeadingZeros(Drop(d, 1)) ELSE d

RECURSIVE StripTrailingZeros(_)
StripTrailingZeros(d) ==
    IF d # "" /\ Ch(d, Len(d)) = "0" THEN StripTrailingZeros(Take(d, Len(d) - 1)) ELSE d

RECURSIVE ZeroDigits(_)
ZeroDigits(k) == IF k <= 0 THEN "" ELSE "0" \o ZeroDigits(k - 1)

RECURSIVE DecimalLimbs(_, _)
DecimalLimbs(d, n) ==
    IF d = "" THEN n ELSE DecimalLimbs(Drop(d, 1), MulAdd(n, 10, DigitVal(Ch(d, 1))))

\* the float64 with integer part n and decimal fraction digits fd
DecimalRounded(neg, n, fd) ==
    IF BitLen(n) >= MantBits THEN Num(neg, RoundToFloat(n, fd # ""), "")
    ELSE Num(neg, n, fd)

\* the digits of all before (id) and after (fd) the decimal point at dp
IntDigits(all, dp) ==
    StripLeadingZeros(IF dp >= Len(all) THEN all \o ZeroDigits(dp - Len(all))
                      ELSE IF dp <= 0 THEN ""
                      ELSE Take(all, dp))

FracDigits(all, dp) ==
    StripTrailingZeros(IF dp >= Len(all) THEN ""
                       ELSE IF dp <= 0 THEN ZeroDigits(-dp) \o all
                       ELSE Drop(all, dp))

\* the float64 of the digits all with the decimal point after the first dp of
\* them; lead is the number of leading zeros of all.  A magnitude beyond the
\* float64 range is a range error (the limit is taken at 10^309) and one below
\* it (taken at 10^-330) is 0; the digits of a finite value of 10^40 or more, or
\* of a non-zero one below 10^-40, are not computed
DecimalPoint(neg, all, dp, lead) ==
    IF lead = Len(all) \/ dp - lead < -330 THEN [ok |-> TRUE, v |-> Num(neg, <<>>, "")]
    ELSE IF dp - lead < -40 THEN [ok |-> TRUE, v |-> Tiny(neg)]
    ELSE IF dp - lead > 309 THEN [ok |-> FALSE, v |-> Inf(neg)]
    ELSE IF dp - lead > 40 THEN [ok |-> TRUE, v |-> Huge(neg)]
    ELSE [ok |-> TRUE,
          v |-> DecimalRounded(neg, DecimalLimbs(IntDigits(all, dp), <<>>),
                               FracDigits(all, dp))]

\* the float64 of the decimal digits ip.fp times 10^e
DecimalFloat(neg, ip, fp, e) ==
    DecimalPoint(neg, ip \o fp, Len(ip) + e,
                 Len(ip \o fp) - Len(StripLeadingZeros(ip \o fp)))

BadFloat == [ok |-> FALSE, v |-> Num(FALSE, <<>>, "")]

\* the end of readFloat: the text must be consumed up to endI
FloatEnd(s, neg, hex, m, endI, e) ==
    IF endI # Len(s) + 1 THEN BadFloat
    ELSE IF IndexByte(s, "_") > 0 /\ ~UnderscoreOK(s) THEN BadFloat
    ELSE IF hex THEN [ok |-> TRUE, v |-> HexFloat]
    ELSE DecimalFloat(neg, m.ip, m.fp, e)

\* the exponent digits x read from position j1 on
FloatExpDigits(s, neg, hex, m, eneg, j1, x) ==
    IF ~(j1 <= Len(s) /\ IsDigit(Ch(s, j1))) THEN BadFloat
    ELSE FloatEnd(s, neg, hex, m, x.i, IF eneg THEN -x.e ELSE x.e)

\* the optional exponent, its sign at position j0
FloatExp(s, neg, hex, m, j0) ==
    IF j0 <= Len(s) /\ Ch(s, j0) \in {"+", "-"}
    THEN FloatExpDigits(s, neg, hex, m, Ch(s, j0) = "-", j0 + 1,
                        ScanExponent(s, j0 + 1, 0))
    ELSE FloatExpDigits(s, neg, hex, m, FALSE, j0, ScanExponent(s, j0, 0))

\* after the mantissa m
FloatMant(s, neg, hex, m) ==
    IF m.ip \o m.fp = "" THEN BadFloat
    ELSE IF m.i <= Len(s) /\ Lower(Ch(s, m.i)) = (IF hex THEN "p" ELSE "e")
    THEN FloatExp(s, neg, hex, m, m.i + 1)
    ELSE IF hex THEN BadFloat
    ELSE FloatEnd(s, neg, hex, m, m.i, 0)

\* readFloat from position i0, after the sign
ReadFloat(s, neg, i0) ==
    IF i0 > Len(s) THEN BadFloat
    ELSE IF i0 + 2 <= Len(s) /\ Ch(s, i0) = "0" /\ Lower(Ch(s, i0 + 1)) = "x"
    THEN FloatMant(s, neg, TRUE, ScanMantissa(s, i0 + 2, TRUE, FALSE, "", ""))
    ELSE FloatMant(s, neg, FALSE, ScanMantissa(s, i0, FALSE, FALSE, "", ""))

FloatAfterSpecial(s, sp) ==
    IF sp.ok THEN (IF sp.n = Len(s) THEN [ok |-> TRUE, v |-> sp.v] ELSE BadFloat)
    ELSE IF s = "" THEN BadFloat
    ELSE ReadFloat(s, Ch(s, 1) = "-", IF Ch(s, 1) \in {"+", "-"} THEN 2 ELSE 1)

\* [ok, v]: ok is err == nil
ParseFloat(s) == FloatAfterSpecial(s, Special(s))

(***************************************************************************)
(* Errors, records and regular expressions of collector.go.                *)
(***************************************************************************)
\* a Go error value: nil, or the function that failed and the text it was given
NoErr == [isNil |-> TRUE, func |-> "", input |-> ""]

Err(func, input) == [isNil |-> FALSE, func |-> func, input |-> input]

\* the error a strconv.ParseFloat call returned with the result f
FloatErr(s, f) == IF f.ok THEN NoErr ELSE Err("ParseFloat", s)

sensorData(name, value, type, state) ==
    [Name |-> name, Value |-> value, Type |-> type, State |-> state]

fwumData(name, value) == [Name |-> name, Value |-> value]

\* strings.Contains / an unanchored regexp of literal characters
RECURSIVE Contains(_, _)
Contains(s, sub) ==
    IF Len(s) < Len(sub) THEN FALSE
    ELSE HasPrefix(s, sub) \/ Contains(Drop(s, 1), sub)

\* s with its leading \s* removed
RECURSIVE SkipSpace(_)
SkipSpace(s) == IF s # "" /\ IsSpace(Ch(s, 1)) THEN SkipSpace(Drop(s, 1)) ELSE s

\* the longest prefix of s made of the character c
RECURSIVE Run(_, _)
Run(s, c) == IF s # "" /\ Ch(s, 1) = c THEN c \o Run(Drop(s, 1), c) ELSE ""

\* the capture group (on|off*) at the start of c
PowerValue(c) ==
    IF HasPrefix(c, "on") THEN [matched |-> TRUE, value |-> "on"]
    ELSE IF HasPrefix(c, "of") THEN [matched |-> TRUE, value |-> "of" \o Run(Drop(c, 2), "f")]
    ELSE [matched |-> FALSE, value |-> ""]

\* \s* and then the literal word at the start of s, and the rest: [matched, rest]
AfterWord(s, word) ==
    IF HasPrefix(s, word) THEN [matched |-> TRUE, rest |-> SkipSpace(Drop(s, Len(word)))]
    ELSE [matched |-> FALSE, rest |-> ""]

PowerAfterIs(b) ==
    IF b.matched THEN PowerValue(b.rest) ELSE [matched |-> FALSE, value |-> ""]

PowerAfterPower(a) ==
    IF a.matched THEN PowerAfterIs(AfterWord(a.rest, "is"))
    ELSE [matched |-> FALSE, value |-> ""]

PowerAfterChassis(c) ==
    IF c.matched THEN PowerAfterPower(AfterWord(c.rest, "Power"))
    ELSE [matched |-> FALSE, value |-> ""]

\* ipmiCurrentPowerRegex.FindStringSubmatch(line):
\* ^Chassis\s*Power\s*is\s*(?P<value>on|off*) ; [matched, value]
ipmiCurrentPowerRegex(line) == PowerAfterChassis(AfterWord(line, "Chassis"))

\* regexp.MatchString("ChassisIntru", name)
MatchChassisIntru(name) == Contains(name, "ChassisIntru")

\* regexp.MatchString(`PS\dStatus*`, name)
RECURSIVE MatchPSStatus(_)
MatchPSStatus(name) ==
    IF Len(name) < 8 THEN FALSE
    ELSE (HasPrefix(name, "PS") /\ IsDigit(Ch(name, 3)) /\ HasPrefix(Drop(name, 3), "Statu"))
         \/ MatchPSStatus(Drop(name, 1))

\* a literal of a pattern at the start of s; '.' in the literal is the
\* pattern's any-character
RECURSIVE LiteralAt(_, _)
LiteralAt(s, w) ==
    IF w = "" THEN TRUE
    ELSE /\ s # ""
         /\ IF Ch(w, 1) = "." THEN Ch(s, 1) # "\n" ELSE Ch(s, 1) = Ch(w, 1)
         /\ LiteralAt(Drop(s, 1), Drop(w, 1))

\* the literals words[k..], each separated from the next by one \s, at the
\* start of s: [matched, rest]
RECURSIVE WordsAt(_, _, _)
WordsAt(s, words, k) ==
    IF ~LiteralAt(s, words[k]) THEN [matched |-> FALSE, rest |-> ""]
    ELSE IF k = Len(words) THEN [matched |-> TRUE, rest |-> Drop(s, Len(words[k]))]
    ELSE IF Len(s) > Len(words[k]) /\ IsSpace(Ch(s, Len(words[k]) + 1))
    THEN WordsAt(Drop(s, Len(words[k]) + 1), words, k + 1)
    ELSE [matched |-> FALSE, rest |-> ""]

\* \s*:\s*(?P<value>.*) at the start of t: [matched, value]
ColonValueOf(t) ==
    IF t # "" /\ Ch(t, 1) = ":" THEN [matched |-> TRUE, value |-> SkipSpace(Drop(t, 1))]
    ELSE [matched |-> FALSE, value |-> ""]

ColonValue(w) ==
    IF w.matched THEN ColonValueOf(SkipSpace(w.rest)) ELSE [matched |-> FALSE, value |-> ""]

\* FindStringSubmatch of ^<words>\s*:\s*(?P<value>.*) : [matched, value]
LabelRegex(line, words) == ColonValue(WordsAt(line, words, 1))

ipSourceRegex(line) == LabelRegex(line, <<"IP", "Address", "Source">>)

macAddressRegex(line) == LabelRegex(line, <<"MAC", "Address">>)

defaultGatewayRegex(line) == LabelRegex(line, <<"Default", "Gateway", "IP">>)

vlanIDRegex(line) == LabelRegex(line, <<"802.1q", "VLAN", "ID">>)

vlanPriorityRegex(line) == LabelRegex(line, <<"802.1q", "VLAN", "Priority">>)

subnetMaskRegex(line) == LabelRegex(line, <<"Subnet", "Mask">>)

firmwareRevRegex(line) == LabelRegex(line, <<"Firmware", "Revision">>)

ipmiVersionRegex(line) == LabelRegex(line, <<"IPMI", "Version">>)

manufacturerRegex(line) == LabelRegex(line, <<"Manufacturer", "Name">>)

\* the leftmost match of \sBoard\sMfg\sDate\s*:\s*(?P<value>.*) from position i
\* on; m is the match of the label right after position i
RECURSIVE BoardDateAt(_, _)
BoardDateTry(line, i, m) == IF m.matched THEN m ELSE BoardDateAt(line, i + 1)

BoardDateAt(line, i) ==
    IF i > Len(line) THEN [matched |-> FALSE, value |-> ""]
    ELSE IF IsSpace(Ch(line, i))
    THEN BoardDateTry(line, i, LabelRegex(Drop(line, i), <<"Board", "Mfg", "Date">>))
    ELSE BoardDateAt(line, i + 1)

\* fruBoardDateRegex.FindStringSubmatch(line): the pattern is not anchored
fruBoardDateRegex(line) == BoardDateAt(line, 1)

\* the position of the last occurrence of sub in s that starts at i or before, 0 if none
RECURSIVE LastIndexFrom(_, _, _)
LastIndexFrom(s, sub, i) ==
    IF i < 1 THEN 0
    ELSE IF HasPrefix(Drop(s, i - 1), sub) THEN i
    ELSE LastIndexFrom(s, sub, i - 1)

LastIndex(s, sub) == LastIndexFrom(s, sub, Len(s) - Len(sub) + 1)

\* \s*(?P<value>.*) Watts at the start of rest, q the last position of " Watts"
\* in it: both repetitions are greedy, \s* first, so the value starts after
\* as much leading white space as leaves the space of " Watts"
WattsAt(rest, q) ==
    IF q = 0 THEN [matched |-> FALSE, value |-> ""]
    ELSE IF Len(rest) - Len(SkipSpace(rest)) < q - 1
    THEN [matched |-> TRUE, value |-> SubSeq(rest, Len(rest) - Len(SkipSpace(rest)) + 1, q - 1)]
    ELSE [matched |-> TRUE, value |-> ""]

WattsValue(w) ==
    IF w.matched THEN WattsAt(w.rest, LastIndex(w.rest, " Watts"))
    ELSE [matched |-> FALSE, value |-> ""]

\* FindStringSubmatch of ^\s*<words>\s*(?P<value>.*) Watts : [matched, value]
ReadingRegex(line, words) == WattsValue(WordsAt(SkipSpace(line), words, 1))

dcmiAvgPowerRegex(line) ==
    ReadingRegex(line, <<"Average", "power", "reading", "over", "sample", "period:">>)

dcmiInstaPowerRegex(line) == ReadingRegex(line, <<"Instantaneous", "power", "reading:">>)

dcmiMinPowerRegex(line) == ReadingRegex(line, <<"Minimum", "during", "sampling", "period:">>)

dcmiMaxPowerRegex(line) == ReadingRegex(line, <<"Maximum", "during", "sampling", "period:">>)

(***************************************************************************)
(* splitSensorOutput                                                       *)
(***************************************************************************)
\* a call that faulted (index out of range): nothing is returned
Panicked == [panic |-> TRUE, result |-> <<>>, err |-> NoErr]

Returned(result, err) == [panic |-> FALSE, result |-> result, err |-> err]

\* the value of a field that ParseUint rejected, f its ParseFloat result
SensorFloat(valueS, f) == [skip |-> ~f.ok, value |-> f.v, err |-> FloatErr(valueS, f)]

\* fault: "na" is given the value 0 in place of NaN
SensorConvNaAsZero(valueS, prev, conv) ==
    IF valueS # "na" /\ ~conv.ok THEN SensorFloat(valueS, ParseFloat(valueS))
    ELSE IF valueS # "na" /\ conv.ok
    THEN [skip |-> FALSE, value |-> FloatOfUint(conv.n), err |-> prev]
    ELSE [skip |-> FALSE, value |-> FloatOfInt(0), err |-> prev]

\* the numeric normaliser of one value field, conv its ParseUint result:
\* [skip, value, err]; err is the function's err variable after the line, prev
\* its value before
SensorConv(valueS, prev, conv) ==
    IF valueS # "na" /\ ~conv.ok THEN SensorFloat(valueS, ParseFloat(valueS))
    ELSE IF valueS # "na" /\ conv.ok
    THEN [skip |-> FALSE, value |-> FloatOfUint(conv.n), err |-> prev]
    ELSE [skip |-> FALSE, value |-> NaN, err |-> prev]

SensorValue(valueS, prev) == SensorConv(valueS, prev, ParseUint(valueS))

\* the rest of the loop body once the value v is known; acc is the call so far
SensorRecord(splittedL, acc, v) ==
    IF v.skip THEN Returned(acc.result, v.err)
    ELSE IF Len(splittedL) < 4 THEN Panicked
    ELSE Returned(Append(acc.result,
                         sensorData(splittedL[1], v.value, splittedL[3], splittedL[4])),
                  v.err)

SensorFields(splittedL, acc) ==
    IF Len(splittedL) < 2 THEN Panicked
    ELSE SensorRecord(splittedL, acc, SensorValue(splittedL[2], acc.err))

\* the body of the scanner loop for one line
SensorLine(line, acc) ==
    IF Len(line) > 0 THEN SensorFields(Split(RemoveSpaces(line), "|"), acc) ELSE acc

\* fault: the loop is left at the first conversion error
RECURSIVE SensorLoopAborting(_, _, _)
SensorLoopAborting(lines, i, acc) ==
    IF i > Len(lines) \/ acc.panic \/ ~acc.err.isNil THEN acc
    ELSE SensorLoopAborting(lines, i + 1, SensorLine(lines[i], acc))

RECURSIVE SensorLoop(_, _, _)
SensorLoop(lines, i, acc) ==
    IF i > Len(lines) \/ acc.panic THEN acc
    ELSE SensorLoop(lines, i + 1, SensorLine(lines[i], acc))

splitSensorOutput(impitoolOutput) ==
    SensorLoop(ScanLines(impitoolOutput), 1, Returned(<<>>, NoErr))

(***************************************************************************)
(* splitFwumOutput.  acc.done: the call has returned early.                *)
(***************************************************************************)
FwumAcc(result, err, done) == [panic |-> FALSE, result |-> result, err |-> err, done |-> done]

\* a line with a ':', f the ParseFloat result of the field after the first ':'
FwumValue(splittedL, acc, f) ==
    IF ~f.ok THEN FwumAcc(acc.result, FloatErr(splittedL[2], f), TRUE)
    ELSE FwumAcc(Append(acc.result, fwumData(splittedL[1], f.v)), NoErr, FALSE)

FwumFields(splittedL, acc) == FwumValue(splittedL, acc, ParseFloat(splittedL[2]))

\* fault: a line without ':' adds no entry
FwumTrimmedSkipping(trimmedL, acc) ==
    IF IndexByte(trimmedL, ":") > 0 THEN FwumFields(Split(trimmedL, ":"), acc)
    ELSE FwumAcc(acc.result, acc.err, FALSE)

FwumTrimmed(trimmedL, acc) ==
    IF IndexByte(trimmedL, ":") > 0 THEN FwumFields(Split(trimmedL, ":"), acc)
    ELSE FwumAcc(Append(acc.result, fwumData("", FloatOfInt(0))), acc.err, FALSE)

\* the body of the scanner loop for one line
FwumLine(line, acc) == FwumTrimmed(RemoveSpaces(line), acc)

RECURSIVE FwumLoop(_, _, _)
FwumLoop(lines, i, acc) ==
    IF i > Len(lines) \/ acc.done THEN Returned(acc.result, acc.err)
    ELSE FwumLoop(lines, i + 1, FwumLine(lines[i], acc))

splitFwumOutput(impitoolOutput) ==
    FwumLoop(ScanLines(impitoolOutput), 1, FwumAcc(<<>>, NoErr, FALSE))

(***************************************************************************)
(* getChassisPowerState                                                    *)
(***************************************************************************)
\* fault: the polarity of the older getChassisPowerState (on is 0, anything else 1)
PowerMatchInverted(m) ==
    IF ~m.matched THEN [panic |-> TRUE, result |-> 0, err |-> NoErr, done |-> TRUE]
    ELSE IF m.value = "on" THEN [panic |-> FALSE, result |-> 0, err |-> NoErr, done |-> TRUE]
    ELSE [panic |-> FALSE, result |-> 1, err |-> NoErr, done |-> FALSE]

\* one line, m its match: [panic, result, err, done]; indexing the nil
\* submatch of a line that does not match the pattern faults
PowerMatch(m) ==
    IF ~m.matched THEN [panic |-> TRUE, result |-> 0, err |-> NoErr, done |-> TRUE]
    ELSE IF m.value = "on" THEN [panic |-> FALSE, result |-> 1, err |-> NoErr, done |-> TRUE]
    ELSE [panic |-> FALSE, result |-> 0, err |-> NoErr, done |-> FALSE]

PowerLine(line, acc) ==
    IF Len(line) > 0 THEN PowerMatch(ipmiCurrentPowerRegex(line)) ELSE acc

RECURSIVE PowerLoop(_, _, _)
PowerLoop(lines, i, acc) ==
    IF i > Len(lines) \/ acc.done
    THEN [panic |-> acc.panic, result |-> acc.result, err |-> acc.err]
    ELSE PowerLoop(lines, i + 1, PowerLine(lines[i], acc))

getChassisPowerState(ipmitoolOutput) ==
    PowerLoop(ScanLines(ipmitoolOutput), 1,
              [panic |-> FALSE, result |-> 0, err |-> NoErr, done |-> FALSE])

(***************************************************************************)
(* splitDcmiPowerOutput, splitBmcOutput, splitFruOutput, splitLANOutput.   *)
(* The state of a scanner loop is [panic, result, err, done]; done: the    *)
(* loop was left by break.                                                 *)
(***************************************************************************)
fruData(name, value) == [Name |-> name, Value |-> value]

lanData(name, value) == [Name |-> name, Value |-> value]

dcmiPowerData(name, value) == [Name |-> name, Value |-> value]

bmcData(name, value) == [Name |-> name, Value |-> value]

LoopAcc(result, err, done) == [panic |-> FALSE, result |-> result, err |-> err, done |-> done]

LoopPanicked == [panic |-> TRUE, result |-> <<>>, err |-> NoErr, done |-> TRUE]

\* the four power readings in the order the loop body tests them
DcmiNames ==
    <<"Avg power consumption", "Min power consumption", "Max power consumption",
      "Instantaneous power consumption">>

\* fault: the last test repeats the pattern of the average reading
DcmiRegexAvgTwice(line, k) ==
    CASE k = 1 -> dcmiAvgPowerRegex(line)
      [] k = 2 -> dcmiMinPowerRegex(line)
      [] k = 3 -> dcmiMaxPowerRegex(line)
      [] k = 4 -> dcmiAvgPowerRegex(line)

DcmiRegex(line, k) ==
    CASE k = 1 -> dcmiAvgPowerRegex(line)
      [] k = 2 -> dcmiMinPowerRegex(line)
      [] k = 3 -> dcmiMaxPowerRegex(line)
      [] k = 4 -> dcmiInstaPowerRegex(line)

\* a matched reading, f the ParseFloat result of its value: err is assigned
\* either way, the record is appended only when the value parsed
DcmiValue(k, value, acc, f) ==
    IF f.ok THEN LoopAcc(Append(acc.result, dcmiPowerData(DcmiNames[k], f.v)), NoErr, FALSE)
    ELSE LoopAcc(acc.result, FloatErr(value, f), FALSE)

DcmiMatched(k, m, acc) ==
    IF m.matched THEN DcmiValue(k, m.value, acc, ParseFloat(m.value)) ELSE acc

\* the tests of patterns k..4 on one line
RECURSIVE DcmiPatterns(_, _, _)
DcmiPatterns(line, k, acc) ==
    IF k > 4 THEN acc
    ELSE DcmiPatterns(line, k + 1, DcmiMatched(k, DcmiRegex(line, k), acc))

DcmiLine(line, acc) == IF Len(line) > 0 THEN DcmiPatterns(line, 1, acc) ELSE acc

RECURSIVE DcmiLoop(_, _, _)
DcmiLoop(lines, i, acc) ==
    IF i > Len(lines) THEN Returned(acc.result, acc.err)
    ELSE DcmiLoop(lines, i + 1, DcmiLine(lines[i], acc))

splitDcmiPowerOutput(impitoolOutput) ==
    DcmiLoop(ScanLines(impitoolOutput), 1, LoopAcc(<<>>, NoErr, FALSE))

\* one line, fw, ver and man its matches: a Manufacturer Name line leaves the loop
BmcMatched(acc, fw, ver, man) ==
    IF fw.matched
    THEN LoopAcc(Append(acc.result, bmcData("FirmwareRevision", fw.value)), acc.err, FALSE)
    ELSE IF ver.matched
    THEN LoopAcc(Append(acc.result, bmcData("IPMIVersion", ver.value)), acc.err, FALSE)
    ELSE IF man.matched
    THEN LoopAcc(Append(acc.result, bmcData("Manufacturer", man.value)), acc.err, TRUE)
    ELSE acc

BmcLine(line, acc) ==
    IF Len(line) > 0
    THEN BmcMatched(acc, firmwareRevRegex(line), ipmiVersionRegex(line), manufacturerRegex(line))
    ELSE acc

RECURSIVE BmcLoop(_, _, _)
BmcLoop(lines, i, acc) ==
    IF i > Len(lines) \/ acc.done THEN Returned(acc.result, acc.err)
    ELSE BmcLoop(lines, i + 1, BmcLine(lines[i], acc))

splitBmcOutput(impitoolOutput) ==
    BmcLoop(ScanLines(impitoolOutput), 1, LoopAcc(<<>>, NoErr, FALSE))

\* a line that is no board date: indexing splittedL[1] of a line without ':' faults
FruFields(splittedL, acc) ==
    IF Len(splittedL) < 2 THEN LoopPanicked
    ELSE LoopAcc(Append(acc.result, fruData(splittedL[1], splittedL[2])), acc.err, FALSE)

FruMatched(line, acc, boardDate) ==
    IF boardDate.matched
    THEN LoopAcc(Append(acc.result, fruData("BoardMfgDate", boardDate.value)), acc.err, FALSE)
    ELSE FruFields(Split(RemoveSpaces(line), ":"), acc)

FruLine(line, acc) ==
    IF Len(line) > 0 THEN FruMatched(line, acc, fruBoardDateRegex(line)) ELSE acc

RECURSIVE FruLoop(_, _, _)
FruLoop(lines, i, acc) ==
    IF acc.panic THEN Panicked
    ELSE IF i > Len(lines) THEN Returned(acc.result, acc.err)
    ELSE FruLoop(lines, i + 1, FruLine(lines[i], acc))

splitFruOutput(impitoolOutput) ==
    FruLoop(ScanLines(impitoolOutput), 1, LoopAcc(<<>>, NoErr, FALSE))

\* the six patterns in the order the loop body tests them
LanNames ==
    <<"IPSource", "SubnetMask", "MACAddress", "DefaultGateway", "VLANID", "VLANPriority">>

LanRegex(line, k) ==
    CASE k = 1 -> ipSourceRegex(line)
      [] k = 2 -> subnetMaskRegex(line)
      [] k = 3 -> macAddressRegex(line)
      [] k = 4 -> defaultGatewayRegex(line)
      [] k = 5 -> vlanIDRegex(line)
      [] k = 6 -> vlanPriorityRegex(line)

\* the value of a record: only the IP source has its spaces removed
LanValue(k, value) == IF k = 1 THEN RemoveSpaces(value) ELSE value

\* the tests of patterns k..6 on one line, m the match of pattern k: the first
\* match gives the record; an 802.1q VLAN Priority line leaves the loop
RECURSIVE LanPatterns(_, _, _)
LanMatched(line, k, acc, m) ==
    IF m.matched
    THEN LoopAcc(Append(acc.result, lanData(LanNames[k], LanValue(k, m.value))), acc.err, k = 6)
    ELSE LanPatterns(line, k + 1, acc)

LanPatterns(line, k, acc) ==
    IF k > 6 THEN acc ELSE LanMatched(line, k, acc, LanRegex(line, k))

LanLine(line, acc) == IF Len(line) > 0 THEN LanPatterns(line, 1, acc) ELSE acc

RECURSIVE LanLoop(_, _, _)
LanLoop(lines, i, acc) ==
    IF i > Len(lines) \/ acc.done THEN Returned(acc.result, acc.err)
    ELSE LanLoop(lines, i + 1, LanLine(lines[i], acc))

splitLANOutput(impitoolOutput) ==
    LanLoop(ScanLines(impitoolOutput), 1, LoopAcc(<<>>, NoErr, FALSE))

(***************************************************************************)
(* ipmitoolConfig                                                          *)
(***************************************************************************)
RECURSIVE FormatUint(_)
FormatUint(i) ==
    IF i < 10 THEN Ch(DigitAlphabet, i + 1)
    ELSE FormatUint(i \div 10) \o Ch(DigitAlphabet, (i % 10) + 1)

\* strconv.FormatInt(i, 10)
FormatInt(i) == IF i < 0 THEN "-" \o FormatUint(-i) ELSE FormatUint(i)

IPMIConfig(interface, privilege, user, password, timeout) ==
    [Interface |-> interface, Privilege |-> privilege, User |-> user,
     Password |-> password, Timeout |-> timeout]

\* fault: the password option is appended before the user option
ipmitoolConfigPasswordFirst(config) ==
    (IF config.Interface # "" THEN <<"-I", config.Interface>> ELSE <<>>)
    \o (IF config.Privilege # "" THEN <<"-L", config.Privilege>> ELSE <<>>)
    \o (IF config.Password # "" THEN <<"-P", config.Password>> ELSE <<>>)
    \o (IF config.User # "" THEN <<"-U", config.User>> ELSE <<>>)
    \o (IF config.Timeout # 0 THEN <<"-N", FormatInt(config.Timeout)>> ELSE <<>>)

ipmitoolConfig(config) ==
    (IF config.Interface # "" THEN <<"-I", config.Interface>> ELSE <<>>)
    \o (IF config.Privilege # "" THEN <<"-L", config.Privilege>> ELSE <<>>)
    \o (IF config.User # "" THEN <<"-U", config.User>> ELSE <<>>)
    \o (IF config.Password # "" THEN <<"-P", config.Password>> ELSE <<>>)
    \o (IF config.Timeout # 0 THEN <<"-N", FormatInt(config.Timeout)>> ELSE <<>>)

(***************************************************************************)
(* collectSensorMonitoring: the state-code lookup and the classification   *)
(* of every record into the metric it is exported as.                      *)
(***************************************************************************)
\* prometheus.MustNewConstMetric(desc, GaugeValue, value, labels...)
Metric(desc, value, labels) == [desc |-> desc, value |-> value, labels |-> labels]

LogLine(level, msg, detail) == [level |-> level, msg |-> msg, detail |-> detail]

collectTypedSensor(desc, stateDesc, state, data) ==
    <<Metric(desc, data.Value, <<data.Name>>), Metric(stateDesc, state, <<data.Name>>)>>

collectGenericSensor(state, data) ==
    <<Metric("sensorValueDesc", data.Value, <<data.Name, data.Type>>),
      Metric("sensorStateDesc", state, <<data.Name, data.Type>>)>>

\* fault: the codes of "nr" and "nc" are exchanged
SensorStateExchanged(raw) ==
    CASE raw = "ok"     -> [state |-> FloatOfInt(0), known |-> TRUE]
      [] raw = "cr"     -> [state |-> FloatOfInt(1), known |-> TRUE]
      [] raw = "nr"     -> [state |-> FloatOfInt(3), known |-> TRUE]
      [] raw = "nc"     -> [state |-> FloatOfInt(2), known |-> TRUE]
      [] raw = "ns"     -> [state |-> FloatOfInt(4), known |-> TRUE]
      [] raw = "0x0000" -> [state |-> FloatOfInt(0), known |-> TRUE]
      [] raw = "0x0100" -> [state |-> FloatOfInt(1), known |-> TRUE]
      [] raw = "na"     -> [state |-> NaN, known |-> TRUE]
      [] OTHER          -> [state |-> NaN, known |-> FALSE]

\* switch data.State: [state, known]; the default arm logs the state
SensorState(raw) ==
    CASE raw = "ok"     -> [state |-> FloatOfInt(0), known |-> TRUE]
      [] raw = "cr"     -> [state |-> FloatOfInt(1), known |-> TRUE]
      [] raw = "nr"     -> [state |-> FloatOfInt(2), known |-> TRUE]
      [] raw = "nc"     -> [state |-> FloatOfInt(3), known |-> TRUE]
      [] raw = "ns"     -> [state |-> FloatOfInt(4), known |-> TRUE]
      [] raw = "0x0000" -> [state |-> FloatOfInt(0), known |-> TRUE]
      [] raw = "0x0100" -> [state |-> FloatOfInt(1), known |-> TRUE]
      [] raw = "na"     -> [state |-> NaN, known |-> TRUE]
      [] OTHER          -> [state |-> NaN, known |-> FALSE]

\* fault: the power-supply pattern is tested before the chassis-intrusion pattern
SensorMetricsPowerSupplyFirst(data, state) ==
    CASE data.Type = "RPM" ->
            collectTypedSensor("fanSpeedDesc", "fanSpeedStateDesc", state, data)
      [] data.Type = "degrees C" ->
            collectTypedSensor("temperatureDesc", "temperatureStateDesc", state, data)
      [] data.Type = "Ampers" ->
            collectTypedSensor("currentDesc", "currentStateDesc", state, data)
      [] data.Type = "Volts" ->
            collectTypedSensor("voltageDesc", "voltageStateDesc", state, data)
      [] data.Type = "Watts" ->
            collectTypedSensor("powerDesc", "powerStateDesc", state, data)
      [] data.Type = "discrete" ->
            IF MatchPSStatus(data.Name)
            THEN collectTypedSensor("chassisPowerDeviceDesc",
                                    "chassisPowerDeviceStateDesc", state, data)
            ELSE IF MatchChassisIntru(data.Name)
            THEN collectTypedSensor("chassisIntrusionDesc", "chassisIntrusionStateDesc",
                                    state, data)
            ELSE <<>>
      [] OTHER -> collectGenericSensor(state, data)

\* switch data.Type: the samples sent for one record
SensorMetrics(data, state) ==
    CASE data.Type = "RPM" ->
            collectTypedSensor("fanSpeedDesc", "fanSpeedStateDesc", state, data)
      [] data.Type = "degrees C" ->
            collectTypedSensor("temperatureDesc", "temperatureStateDesc", state, data)
      [] data.Type = "Ampers" ->
            collectTypedSensor("currentDesc", "currentStateDesc", state, data)
      [] data.Type = "Volts" ->
            collectTypedSensor("voltageDesc", "voltageStateDesc", state, data)
      [] data.Type = "Watts" ->
            collectTypedSensor("powerDesc", "powerStateDesc", state, data)
      [] data.Type = "discrete" ->
            IF MatchChassisIntru(data.Name)
            THEN collectTypedSensor("chassisIntrusionDesc", "chassisIntrusionStateDesc",
                                    state, data)
            ELSE IF MatchPSStatus(data.Name)
            THEN collectTypedSensor("chassisPowerDeviceDesc",
                                    "chassisPowerDeviceStateDesc", state, data)
            ELSE <<>>
      [] OTHER -> collectGenericSensor(state, data)

\* the log lines of one record
SensorLogs(data, st) ==
    IF st.known THEN <<>> ELSE <<LogLine("error", "Unknown sensor state", data.State)>>

\* what the loop body of collectSensorMonitoring adds for one record, st its state
SensorSamples(data, st, acc) ==
    [ch |-> acc.ch \o SensorMetrics(data, st.state), logs |-> acc.logs \o SensorLogs(data, st)]

RECURSIVE SensorRecordsLoop(_, _, _)
SensorRecordsLoop(results, i, acc) ==
    IF i > Len(results) THEN acc
    ELSE SensorRecordsLoop(results, i + 1,
                           SensorSamples(results[i], SensorState(results[i].State), acc))

Collected(up, err, acc) ==
    [panic |-> FALSE, up |-> up, err |-> err, ch |-> acc.ch, logs |-> acc.logs]

\* fault: the records are exported before the error of the parse is tested
CollectParsedLate(parsed) ==
    IF parsed.panic
    THEN [panic |-> TRUE, up |-> 0, err |-> NoErr, ch |-> <<>>, logs |-> <<>>]
    ELSE IF ~parsed.err.isNil
    THEN Collected(0, parsed.err,
                   SensorRecordsLoop(parsed.result, 1, [ch |-> <<>>, logs |-> <<>>]))
    ELSE Collected(1, NoErr,
                   SensorRecordsLoop(parsed.result, 1, [ch |-> <<>>, logs |-> <<>>]))

\* collectSensorMonitoring once the output is parsed
CollectParsed(parsed) ==
    IF parsed.panic
    THEN [panic |-> TRUE, up |-> 0, err |-> NoErr, ch |-> <<>>, logs |-> <<>>]
    ELSE IF ~parsed.err.isNil
    THEN Collected(0, parsed.err,
                   [ch |-> <<>>,
                    logs |-> <<LogLine("error", "Failed to parse ipmitool sensor data", "")>>])
    ELSE Collected(1, NoErr,
                   SensorRecordsLoop(parsed.result, 1, [ch |-> <<>>, logs |-> <<>>]))

\* output, cmdErr: what ipmitoolOutput(target, "sensor") returned.
\* [panic, up, err, ch, logs]
collectSensorMonitoring(output, cmdErr) ==
    IF ~cmdErr.isNil
    THEN Collected(0, cmdErr,
                   [ch |-> <<>>,
                    logs |-> <<LogLine("error", "Error while calling", "sensor"),
                               LogLine("error", "Failed to collect ipmitool sensor data", "")>>])
    ELSE CollectParsed(splitSensorOutput(output))

(***************************************************************************)
(* strconv.FormatFloat(v, 'f', 6, 64)                                      *)
(***************************************************************************)
\* n divided by ten, limb i downwards, r the remainder carried and q the
\* quotient limbs so far: [q, r]
RECURSIVE DivTenFrom(_, _, _, _)
DivTenFrom(n, i, r, q) ==
    IF i = 0 THEN [q |-> StripZeroLimbs(q), r |-> r]
    ELSE DivTenFrom(n, i - 1, (r * LimbBase + n[i]) % 10,
                    <<(r * LimbBase + n[i]) \div 10>> \o q)

\* the decimal digits of the unsigned integer n, "" for 0
RECURSIVE DecimalDigits(_)
DecimalDigitsOf(d) == DecimalDigits(d.q) \o Ch(DigitAlphabet, d.r + 1)

DecimalDigits(n) == IF n = <<>> THEN "" ELSE DecimalDigitsOf(DivTenFrom(n, Len(n), 0, <<>>))

\* the digits before the decimal point
WholeDigits(d) == IF d = "" THEN "0" ELSE d

\* a value with at most six fraction digits is written with the fraction
\* padded to six; the sixth digit of a longer fraction depends on the
\* rounding of the binary value and is marked "~"; the digits of the values
\* whose digits are not modelled are written as the kind of the value
FormatFloat(v) ==
    CASE v.k = "NaN" -> "NaN"
      [] v.k = "Inf" -> IF v.neg THEN "-Inf" ELSE "+Inf"
      [] v.k = "num" /\ Len(v.frac) <= 6 ->
            (IF v.neg THEN "-" ELSE "") \o WholeDigits(DecimalDigits(v.int)) \o "."
                \o v.frac \o ZeroDigits(6 - Len(v.frac))
      [] v.k = "num" /\ Len(v.frac) > 6 ->
            (IF v.neg THEN "-" ELSE "") \o WholeDigits(DecimalDigits(v.int)) \o "."
                \o Take(v.frac, 6) \o "~"
      [] OTHER -> (IF v.neg THEN "-" ELSE "") \o "(" \o v.k \o ")"

(***************************************************************************)
(* ipmitoolOutput and the collect functions.  What the external command    *)
(* produced, its combined output and its error, is the input env.          *)
(***************************************************************************)
\* err.(*exec.ExitError): the command ran and ended with a non-zero status
IsExitError(err) == ~err.isNil /\ err.func = "exec" /\ HasPrefix(err.input, "exit status")

\* the lines ipmitoolOutput logs for a command that ended with err
CommandLogs(command, err) ==
    IF err.isNil THEN <<>>
    ELSE IF command # "fwum" THEN <<LogLine("error", "Error while calling", command)>>
    ELSE IF IsExitError(err) THEN <<LogLine("debug", "Exit status of FWUM", "")>>
    ELSE <<>>

\* a collect function that faulted while parsing; logs: what it logged before
CollectPanicked(logged) ==
    [panic |-> TRUE, up |-> 0, err |-> NoErr, ch |-> <<>>, logs |-> logged]

\* one info sample per record, labelled with its name and value
InfoSamples(desc, results) ==
    [i \in 1..Len(results) |->
        Metric(desc, FloatOfInt(1), <<results[i].Name, results[i].Value>>)]

\* collectFRUInfo, collectLANInfo and collectBmcInfo once the output is parsed
InfoParsed(desc, failed, parsed) ==
    IF parsed.panic THEN CollectPanicked(<<>>)
    ELSE IF ~parsed.err.isNil
    THEN Collected(0, parsed.err, [ch |-> <<>>, logs |-> <<LogLine("error", failed, "")>>])
    ELSE Collected(1, NoErr, [ch |-> InfoSamples(desc, parsed.result), logs |-> <<>>])

\* a collect function whose command failed
CommandFailed(command, failed, cmdErr) ==
    Collected(0, cmdErr,
              [ch |-> <<>>,
               logs |-> CommandLogs(command, cmdErr) \o <<LogLine("debug", failed, "")>>])

collectFRUInfo(output, cmdErr) ==
    IF ~cmdErr.isNil THEN CommandFailed("fru", "Failed to collect ipmitool fru data", cmdErr)
    ELSE InfoParsed("fruInfo", "Failed to parse ipmitool fru data", splitFruOutput(output))

collectLANInfo(output, cmdErr) ==
    IF ~cmdErr.isNil THEN CommandFailed("lan", "Failed to collect ipmitool lan data", cmdErr)
    ELSE InfoParsed("lanInfo", "Failed to parse ipmitool lan data", splitLANOutput(output))

collectBmcInfo(output, cmdErr) ==
    IF ~cmdErr.isNil THEN CommandFailed("bmc", "Failed to collect ipmtool bmc data", cmdErr)
    ELSE InfoParsed("bmcInfo", "Failed to collect ipmtool bmc data", splitBmcOutput(output))

DcmiSamples(results) ==
    [i \in 1..Len(results) |->
        Metric("powerConsumptionDesc", results[i].Value, <<results[i].Name>>)]

DcmiParsed(parsed) ==
    IF parsed.panic THEN CollectPanicked(<<>>)
    ELSE IF ~parsed.err.isNil
    THEN Collected(0, parsed.err,
                   [ch |-> <<>>,
                    logs |-> <<LogLine("error",
                                       "Failed to collect ipmtool dcmi power data", "")>>])
    ELSE Collected(1, NoErr, [ch |-> DcmiSamples(parsed.result), logs |-> <<>>])

collectDcmiPowerInfo(output, cmdErr) ==
    IF ~cmdErr.isNil
    THEN CommandFailed("dcmi-power", "Failed to collect ipmtool dcmi power data", cmdErr)
    ELSE DcmiParsed(splitDcmiPowerOutput(output))

\* the label the loop of collectFwumInfo leaves for the records named name:
\* the one of the last of them, "" when there is none
RECURSIVE FwumInfoLabel(_, _, _)
FwumInfoLabel(results, name, i) ==
    IF i = 0 THEN ""
    ELSE IF results[i].Name = name THEN FormatFloat(results[i].Value)
    ELSE FwumInfoLabel(results, name, i - 1)

\* collectFwumInfo once the output is parsed; logged: the lines of ipmitoolOutput
FwumParsed(parsed, logged) ==
    IF parsed.panic THEN CollectPanicked(logged)
    ELSE IF ~parsed.err.isNil
    THEN Collected(0, parsed.err,
                   [ch |-> <<>>,
                    logs |-> logged
                             \o <<LogLine("error", "Failed to collect ipmtool fwum data", "")>>])
    ELSE Collected(1, NoErr,
                   [ch |-> <<Metric("fwumInfo", FloatOfInt(1),
                                    <<FwumInfoLabel(parsed.result, "FirmwareRevision",
                                                    Len(parsed.result)),
                                      FwumInfoLabel(parsed.result, "ManufacturerId",
                                                    Len(parsed.result))>>)>>,
                    logs |-> logged])

\* the error of the command is dropped: the output is parsed whatever it is
collectFwumInfo(output, cmdErr) ==
    FwumParsed(splitFwumOutput(output), CommandLogs("fwum", cmdErr))

PowerParsed(parsed) ==
    IF parsed.panic THEN CollectPanicked(<<>>)
    ELSE IF ~parsed.err.isNil
    THEN Collected(0, parsed.err,
                   [ch |-> <<>>,
                    logs |-> <<LogLine("error", "Failed to collect ipmtool power data", "")>>])
    ELSE Collected(1, NoErr,
                   [ch |-> <<Metric("chassisPowerStateDesc", FloatOfInt(parsed.result),
                                    <<"PowerState">>)>>,
                    logs |-> <<>>])

collectPowerState(output, cmdErr) ==
    IF ~cmdErr.isNil
    THEN CommandFailed("power", "Failed to collect ipmtool power data", cmdErr)
    ELSE PowerParsed(getChassisPowerState(output))

markCollectorUp(name, up) == <<Metric("upDesc", FloatOfInt(up), <<name>>)>>

(***************************************************************************)
(* collector.Collect.  collectors is config.Collectors, runs[i] what the   *)
(* command of collector i produced and power what `power status` produced. *)
(***************************************************************************)
\* the wall-clock time of the scrape: any non-negative number of seconds
Elapsed == [k |-> "elapsed", neg |-> FALSE, int |-> <<>>, frac |-> ""]

\* switch collector: var up int stays 0 for a name that is no case
RunCollector(collector, env) ==
    CASE collector = "sensor" -> collectSensorMonitoring(env.output, env.err)
      [] collector = "fru" -> collectFRUInfo(env.output, env.err)
      [] collector = "lan" -> collectLANInfo(env.output, env.err)
      [] collector = "bmc" -> collectBmcInfo(env.output, env.err)
      [] collector = "fwum" -> collectFwumInfo(env.output, env.err)
      [] collector = "dcmi-power" -> collectDcmiPowerInfo(env.output, env.err)
      [] OTHER -> Collected(0, NoErr, [ch |-> <<>>, logs |-> <<>>])

\* one iteration of the loop over config.Collectors, r what the collect
\* function did: a fault leaves the loop before markCollectorUp
CollectorDone(collector, acc, r) ==
    [panic |-> r.panic,
     ch |-> acc.ch \o r.ch \o (IF r.panic THEN <<>> ELSE markCollectorUp(collector, r.up)),
     logs |-> acc.logs \o <<LogLine("debug", "Running collector", collector)>> \o r.logs]

RECURSIVE CollectorsLoop(_, _, _, _)
CollectorsLoop(collectors, runs, i, acc) ==
    IF i > Len(collectors) \/ acc.panic THEN acc
    ELSE CollectorsLoop(collectors, runs, i + 1,
                        CollectorDone(collectors[i], acc, RunCollector(collectors[i], runs[i])))

\* collectPowerState(ch, target) after the loop, r what it did
PowerDone(acc, r) ==
    [panic |-> r.panic, ch |-> acc.ch \o r.ch, logs |-> acc.logs \o r.logs]

AfterCollectors(acc, power) ==
    IF acc.panic THEN acc ELSE PowerDone(acc, collectPowerState(power.output, power.err))

\* the deferred function: it runs when Collect returns and when it faults
Deferred(acc) ==
    [panic |-> acc.panic,
     ch |-> acc.ch \o <<Metric("durationDesc", Elapsed, <<>>)>>,
     logs |-> acc.logs \o <<LogLine("debug", "Scrape of target took", "")>>]

\* [panic, ch, logs]
Collect(collectors, runs, power) ==
    Deferred(AfterCollectors(CollectorsLoop(collectors, runs, 1,
                                            [panic |-> FALSE, ch |-> <<>>, logs |-> <<>>]),
                             power))

(***************************************************************************)
(* The inputs the model draws.                                             *)
(***************************************************************************)
SeqsUpTo(S, n) == UNION {[1..k -> S] : k \in 0..n}

\* one row of `ipmitool sensor list`
SensorRow(name, value, unit, state) ==
    name \o " | " \o value \o " | " \o unit \o " | " \o state \o " | na"

SensorNames ==
    {"CPU1 Temp", "Chassis Intru", "PS1 Status", "PS2 Status Chassis Intru", "FAN\t1"}

SensorValues ==
    {"31.000", "na", "0x0", "0x1f", "NaN", "abc",
     "0x1FFFFFFFFFFFFF", "0x20000000000001", "0xFFFFFFFFFFFFFFFF", "0x10000000000000000"}

SensorUnits == {"degrees C", "discrete", "RPM", "Volts", "", "percent"}

SensorStates == {"ok", "cr", "nr", "nc", "ns", "0x0000", "0x0100", "na", "0x0200"}

\* the text of TestSplitSensorOutput
SensorFixture ==
    <<"CPU1 Temp        | 31.000     | degrees C  | ok    | 0.000     | 0.000",
      "P1-DIMMA2 Temp   | na         |            | na    | na        | na",
      "Chassis Intru    | 0x0        | discrete   | 0x0000| na        | na">>

SensorFixtureLines ==
    {SensorFixture[i] : i \in 1..3}
    \cup {"", "Fan1 | abc | RPM | ok", "PS1 Status | 0x1 | discrete | 0x0100",
          "Fan2 | 4200 | RPM | 0x0200", "Fan3 | 4200 | RPM",
          "Get Device ID command failed"}

SensorBlobs ==
    {SensorRow(n, v, u, st) :
        n \in SensorNames, v \in SensorValues, u \in SensorUnits, st \in SensorStates}
    \cup {JoinLines(ls) \o nl : ls \in SeqsUpTo(SensorFixtureLines, MaxLines), nl \in {"", "\n"}}
    \cup {JoinLines(SensorFixture)}

\* the text of TestSplitFwumOutput
FwumFixture ==
    <<"FWUM extension Version 1.3", "", "IPMC Info", "=========",
      "Manufacturer Id           : 10876",
      "Board Id                  : 2130",
      "Firmware Revision         : 3.76">>

FwumLines ==
    {FwumFixture[i] : i \in 1..7}
    \cup {"Board Id : 0x1A", "Uptime : 1:30", "Offset : -2.50"}

FwumBlobs ==
    {JoinLines(ls) \o nl : ls \in SeqsUpTo(FwumLines, MaxLines), nl \in {"", "\n"}}
    \cup {JoinLines(FwumFixture)}

PowerLines ==
    {"Chassis Power is off", "Chassis Power is on", "", "ChassisPower  is on",
     "Chassis Power is offf", "Error: Unable to establish LAN session"}

PowerBlobs ==
    {JoinLines(ls) \o nl : ls \in SeqsUpTo(PowerLines, MaxLines), nl \in {"", "\n"}}

\* the text of TestSplitFruOutput
FruFixture ==
    <<"FRU Device Description : Builtin FRU Device (ID 0)",
      "Chassis Type          : Other",
      "Chassis Part Number   : CSE-747BTS-R2K04BP",
      "Chassis Serial        : C7470KH08MS0040",
      "Board Mfg Date        : Mon Jan  1 03:00:00 1996",
      "Board Mfg             : Supermicro",
      "Board Serial          : VM187S012298",
      "Board Part Number     : X10DRG-Q",
      "Product Manufacturer  : Supermicro",
      "Product Part Number   : SYS-7048GR-TR",
      "Product Serial        : E16953528901097">>

\* lines of `ipmitool fru list`, which indents its fields by one space
FruLines ==
    {FruFixture[i] : i \in {2, 5, 6}}
    \cup {"", " Board Mfg Date        : Mon Jan  1 03:00:00 1996",
          " Product Extra         : AB:CD",
          " Device not present (Requested sensor, data, or record not found)"}

FruBlobs ==
    {JoinLines(ls) \o nl : ls \in SeqsUpTo(FruLines, MaxLines), nl \in {"", "\n"}}
    \cup {JoinLines(FruFixture)}

\* lines of `ipmitool lan print`
LanLines ==
    {"", "IP Address Source       : Static Address",
     "IP Address              : 10.0.0.1",
     "Subnet Mask             : 255.255.255.0",
     "MAC Address             : 0c:c4:7a:00:00:01",
     "Default Gateway IP      : 10.0.0.254",
     "802.1q VLAN ID          : Disabled",
     "802.1q VLAN Priority    : 0"}

LanBlobs ==
    {JoinLines(ls) \o nl : ls \in SeqsUpTo(LanLines, MaxLines), nl \in {"", "\n"}}

\* lines of `ipmitool bmc info`
BmcLines ==
    {"", "Device ID                 : 32",
     "Firmware Revision         : 3.76",
     "IPMI Version              : 2.0",
     "Manufacturer Name         : Supermicro"}

BmcBlobs ==
    {JoinLines(ls) \o nl : ls \in SeqsUpTo(BmcLines, MaxLines), nl \in {"", "\n"}}

\* lines of `ipmitool dcmi power reading 1_min`
DcmiLines ==
    {"", "    Instantaneous power reading:                   118 Watts",
     "    Minimum during sampling period:                 10 Watts",
     "    Maximum during sampling period:                250 Watts",
     "    Average power reading over sample period:      120 Watts",
     "    Average power reading over sample period:      n/a Watts",
     "    Power reading state is:                   activated",
     "    Average power reading over sample period: Minimum during sampling period: 5 Watts"}

DcmiBlobs ==
    {JoinLines(ls) \o nl : ls \in SeqsUpTo(DcmiLines, MaxLines), nl \in {"", "\n"}}

Configs ==
    {IPMIConfig(i, l, u, pw, t) :
        i \in {"", "lanplus"}, l \in {"", "administrator"}, u \in {"", "example_user"},
        pw \in {"", "example_pass"}, t \in {0, 5, 120, -3}}

\* what a command produced: its combined output and its error
Ran(output, err) == [output |-> output, err |-> err]

\* the command did not run to a zero exit status and printed nothing
NoOutput == Ran("", Err("exec", "exit status 1"))

\* the names config.Collectors may list; "chassis" is no collector of Collect
CollectorNames == {"sensor", "fru", "lan", "bmc", "fwum", "dcmi-power", "chassis"}

\* what the command of a collector may have produced
CommandRuns(collector) ==
    CASE collector = "sensor" ->
            {Ran(JoinLines(SensorFixture), NoErr),
             Ran(JoinLines(<<"Fan1 | abc | RPM | ok", SensorFixture[3]>>), NoErr),
             Ran("Get Device ID command failed", NoErr), NoOutput}
      [] collector = "fru" ->
            {Ran(JoinLines(FruFixture), NoErr),
             Ran(" Device not present (Requested sensor, data, or record not found)", NoErr),
             NoOutput}
      [] collector = "lan" ->
            {Ran(JoinLines(<<"IP Address Source       : Static Address",
                             "MAC Address             : 0c:c4:7a:00:00:01">>), NoErr),
             NoOutput}
      [] collector = "bmc" ->
            {Ran(JoinLines(<<"Firmware Revision         : 3.76",
                             "Manufacturer Name         : Supermicro">>), NoErr),
             NoOutput}
      [] collector = "fwum" ->
            {Ran(JoinLines(FwumFixture), NoErr),
             Ran(JoinLines(FwumFixture), Err("exec", "exit status 1")),
             Ran("Board Id : 0x1A", NoErr), NoOutput}
      [] collector = "dcmi-power" ->
            {Ran("    Instantaneous power reading:                   118 Watts", NoErr),
             Ran("    Average power reading over sample period:      n/a Watts", NoErr),
             NoOutput}
      [] OTHER -> {Ran("", NoErr)}

\* what `ipmitool power status` may have produced
PowerRuns ==
    {Ran("Chassis Power is on", NoErr), Ran("Chassis Power is off\n", NoErr),
     Ran("Error: Unable to establish LAN session", NoErr), NoOutput}

\* a collector of the configuration with what its command produced
CollectorRuns ==
    UNION {{[name |-> n, env |-> e] : e \in CommandRuns(n)} : n \in CollectorNames}

\* the scrapes: a configuration of up to MaxCollectors collectors and the
\* output of every command the scrape runs
Scrapes ==
    {[collectors |-> [i \in 1..Len(x) |-> x[i].name],
      runs |-> [i \in 1..Len(x) |-> x[i].env],
      power |-> p] :
        x \in SeqsUpTo(CollectorRuns, MaxCollectors), p \in PowerRuns}

\* the error of the external command, when it fails
CmdErrs == {NoErr, Err("exec", "exit status 1")}

(***************************************************************************)
(* The state machine.  A behaviour is one call: Init draws the function    *)
(* that is called (op) and its input (arg); the call's action computes     *)
(* what it returned (ret), the samples it sent (ch) and the lines it       *)
(* logged (logs).  pc is "call" before the call has run and "done" after.  *)
(***************************************************************************)
Calls ==
    [op : {"splitSensorOutput"}, arg : SensorBlobs]
    \cup [op : {"collectSensorMonitoring"}, arg : [output : SensorBlobs, err : CmdErrs]]
    \cup [op : {"splitFwumOutput"}, arg : FwumBlobs]
    \cup [op : {"getChassisPowerState"}, arg : PowerBlobs]
    \cup [op : {"ipmitoolConfig"}, arg : Configs]
    \cup [op : {"splitDcmiPowerOutput"}, arg : DcmiBlobs]
    \cup [op : {"splitBmcOutput"}, arg : BmcBlobs]
    \cup [op : {"splitFruOutput"}, arg : FruBlobs]
    \cup [op : {"splitLANOutput"}, arg : LanBlobs]
    \cup [op : {"Collect"}, arg : Scrapes]

Init ==
    /\ pc = "call"
    /\ \E c \in Calls : op = c.op /\ arg = c.arg
    /\ ret = Returned(<<>>, NoErr)
    /\ ch = <<>>
    /\ logs = <<>>

CallSplitSensorOutput ==
    /\ pc = "call" /\ op = "splitSensorOutput"
    /\ ret' = splitSensorOutput(arg)
    /\ pc' = "done"
    /\ UNCHANGED <<op, arg, ch, logs>>

CallCollectSensorMonitoring ==
    /\ pc = "call" /\ op = "collectSensorMonitoring"
    /\ \E r \in {collectSensorMonitoring(arg.output, arg.err)} :
           /\ ret' = [panic |-> r.panic, up |-> r.up, err |-> r.err]
           /\ ch' = r.ch
           /\ logs' = r.logs
    /\ pc' = "done"
    /\ UNCHANGED <<op, arg>>

CallSplitFwumOutput ==
    /\ pc = "call" /\ op = "splitFwumOutput"
    /\ ret' = splitFwumOutput(arg)
    /\ pc' = "done"
    /\ UNCHANGED <<op, arg, ch, logs>>

CallGetChassisPowerState ==
    /\ pc = "call" /\ op = "getChassisPowerState"
    /\ ret' = getChassisPowerState(arg)
    /\ pc' = "done"
    /\ UNCHANGED <<op, arg, ch, logs>>

CallIpmitoolConfig ==
    /\ pc = "call" /\ op = "ipmitoolConfig"
    /\ ret' = ipmitoolConfig(arg)
    /\ pc' = "done"
    /\ UNCHANGED <<op, arg, ch, logs>>

CallSplitDcmiPowerOutput ==
    /\ pc = "call" /\ op = "splitDcmiPowerOutput"
    /\ ret' = splitDcmiPowerOutput(arg)
    /\ pc' = "done"
    /\ UNCHANGED <<op, arg, ch, logs>>

CallSplitBmcOutput ==
    /\ pc = "call" /\ op = "splitBmcOutput"
    /\ ret' = splitBmcOutput(arg)
    /\ pc' = "done"
    /\ UNCHANGED <<op, arg, ch, logs>>

CallSplitFruOutput ==
    /\ pc = "call" /\ op = "splitFruOutput"
    /\ ret' = splitFruOutput(arg)
    /\ pc' = "done"
    /\ UNCHANGED <<op, arg, ch, logs>>

CallSplitLANOutput ==
    /\ pc = "call" /\ op = "splitLANOutput"
    /\ ret' = splitLANOutput(arg)
    /\ pc' = "done"
    /\ UNCHANGED <<op, arg, ch, logs>>

\* Collect returns nothing: ret records only whether it faulted
CallCollect ==
    /\ pc = "call" /\ op = "Collect"
    /\ \E r \in {Collect(arg.collectors, arg.runs, arg.power)} :
           /\ ret' = [panic |-> r.panic]
           /\ ch' = r.ch
           /\ logs' = r.logs
    /\ pc' = "done"
    /\ UNCHANGED <<op, arg>>

Next ==
    \/ CallSplitSensorOutput
    \/ CallCollectSensorMonitoring
    \/ CallSplitFwumOutput
    \/ CallGetChassisPowerState
    \/ CallIpmitoolConfig
    \/ CallSplitDcmiPowerOutput
    \/ CallSplitBmcOutput
    \/ CallSplitFruOutput
    \/ CallSplitLANOutput
    \/ CallCollect

Spec == Init /\ [][Next]_vars

(***************************************************************************)
(* Concurrent scrapes.  Every scrape request runs Collect in a goroutine   *)
(* of its own, so several parse calls are in progress at once.  Request p  *)
(* calls op[p] on arg[p]; pc[p] is where the call is: scanning its line    *)
(* pc[p].line, or returned; ret[p] holds the locals of the call (result,   *)
(* err and whether the loop was left) and, once it returned, what it       *)
(* returned.  The scheduler may switch between the calls after any line.   *)
(***************************************************************************)
\* the calls the requests make: two lines or more each, with the lines that
\* assign err, leave the loop or fault
ConcurrentCalls ==
    {[op |-> "splitSensorOutput",
      arg |-> JoinLines(<<"Fan1 | abc | RPM | ok", SensorFixture[3]>>)],
     [op |-> "splitFwumOutput",
      arg |-> JoinLines(<<FwumFixture[5], "Offset : abc", FwumFixture[6]>>)],
     [op |-> "getChassisPowerState", arg |-> "Chassis Power is off\nChassis Power is on"],
     [op |-> "splitBmcOutput",
      arg |-> "Manufacturer Name         : Supermicro\nFirmware Revision         : 3.76"],
     [op |-> "splitFruOutput", arg |-> JoinLines(<<FruFixture[2], FruFixture[5]>>)],
     [op |-> "splitLANOutput",
      arg |-> "MAC Address             : 0c:c4:7a:00:00:01\n802.1q VLAN ID          : Disabled"],
     [op |-> "splitDcmiPowerOutput",
      arg |-> JoinLines(<<"    Average power reading over sample period:      n/a Watts",
                          "    Instantaneous power reading:                   118 Watts">>)]}

Requests == 1..MaxRequests

\* var result, var err of a call, before its first line
InitialLocals(name) ==
    CASE name = "splitSensorOutput" -> Returned(<<>>, NoErr)
      [] name = "getChassisPowerState" ->
            [panic |-> FALSE, result |-> 0, err |-> NoErr, done |-> FALSE]
      [] OTHER -> LoopAcc(<<>>, NoErr, FALSE)

\* the body of the scanner loop of a parser for one line
LoopBody(name, line, acc) ==
    CASE name = "splitSensorOutput" -> SensorLine(line, acc)
      [] name = "splitFwumOutput" -> FwumLine(line, acc)
      [] name = "getChassisPowerState" -> PowerLine(line, acc)
      [] name = "splitDcmiPowerOutput" -> DcmiLine(line, acc)
      [] name = "splitBmcOutput" -> BmcLine(line, acc)
      [] name = "splitFruOutput" -> FruLine(line, acc)
      [] name = "splitLANOutput" -> LanLine(line, acc)

\* the loop was left by a fault, a return or a break
LoopLeft(name, acc) == acc.panic \/ (name # "splitSensorOutput" /\ acc.done)

\* fault: err is a package-level variable, the one the first request assigns
LocalsErrShared(locals, p) == [locals[p] EXCEPT !.err = locals[1].err]

\* the locals of the call of request p: declared in the function body, they
\* are the call's own
Locals(locals, p) == locals[p]

InitConcurrent ==
    /\ \E calls \in [Requests -> ConcurrentCalls] :
           /\ op = [p \in Requests |-> calls[p].op]
           /\ arg = [p \in Requests |-> calls[p].arg]
           /\ ret = [p \in Requests |-> InitialLocals(calls[p].op)]
    /\ pc = [p \in Requests |-> [at |-> "scan", line |-> 1]]
    /\ ch = <<>>
    /\ logs = <<>>

\* one iteration of the scanner loop of the call of request p
ScanLine(p) ==
    /\ pc[p].at = "scan"
    /\ pc[p].line <= Len(ScanLines(arg[p]))
    /\ ~LoopLeft(op[p], Locals(ret, p))
    /\ ret' = [ret EXCEPT ![p] = LoopBody(op[p], ScanLines(arg[p])[pc[p].line],
                                          Locals(ret, p))]
    /\ pc' = [pc EXCEPT ![p].line = @ + 1]
    /\ UNCHANGED <<op, arg, ch, logs>>

\* the call of request p returns, or ends with its fault
ReturnCall(p) ==
    /\ pc[p].at = "scan"
    /\ pc[p].line > Len(ScanLines(arg[p])) \/ LoopLeft(op[p], Locals(ret, p))
    /\ \E acc \in {Locals(ret, p)} :
           ret' = [ret EXCEPT ![p] = [panic |-> acc.panic, result |-> acc.result,
                                      err |-> acc.err]]
    /\ pc' = [pc EXCEPT ![p].at = "return"]
    /\ UNCHANGED <<op, arg, ch, logs>>

NextConcurrent ==
    \/ \E p \in Requests : ScanLine(p)
    \/ \E p \in Requests : ReturnCall(p)

SpecConcurrent == InitConcurrent /\ [][NextConcurrent]_vars

(***************************************************************************)
(* Definitions the properties share.                                       *)
(***************************************************************************)
Done(name) == pc = "done" /\ op = name

\* the fields of a sensor line and its value field
Fields(line) == Split(RemoveSpaces(line), "|")

ValueField(line) == IF Len(Fields(line)) >= 2 THEN Fields(line)[2] ELSE ""

IsHexDigit(c) == DigitVal(c) >= 0 /\ DigitVal(c) <= 15

\* "0x" followed by hexadecimal digits
IsHexLiteral(f) ==
    Len(f) >= 3 /\ Take(f, 2) = "0x" /\ \A i \in 3..Len(f) : IsHexDigit(Ch(f, i))

\* the unsigned integer a string of hexadecimal digits denotes, of any size
RECURSIVE HexLimbs(_, _)
HexLimbs(d, n) ==
    IF d = "" THEN n ELSE HexLimbs(Drop(d, 1), MulAdd(n, 16, DigitVal(Ch(d, 1))))

HexValue(f) == HexLimbs(Drop(f, 2), <<>>)

\* the value field can be converted: it is "na", an unsigned integer or a float
Convertible(f) == f = "na" \/ ParseUint(f).ok \/ ParseFloat(f).ok

\* the lines of a sensor text that yield a record, in order
KeptLines(blob) ==
    SelectSeq(ScanLines(blob), LAMBDA l : Len(l) > 0 /\ Convertible(ValueField(l)))

(***************************************************************************)
(* C1 (as stated): in a parse that returned, the record of every line has  *)
(* a NaN value if and only if the line's value field is exactly "na".      *)
(* Fails for a value field that spells NaN ("NaN", "nan").                 *)
(***************************************************************************)
C1_NaNIffNa ==
    (Done("splitSensorOutput") /\ ~ret.panic) =>
        \A kept \in {KeptLines(arg)} :
            /\ Len(ret.result) = Len(kept)
            /\ \A i \in 1..Len(ret.result) :
                   IsNaN(ret.result[i].Value) <=> ValueField(kept[i]) = "na"

(***************************************************************************)
(* C1 (amended): the record of every line has a NaN value if and only if   *)
(* the value field is exactly "na" or spells NaN in any letter case, and   *)
(* every line whose value field is "na" has a record, whatever its name,   *)
(* unit and state fields are.                                              *)
(***************************************************************************)
C1_NaNIffNaOrNaNSpelling ==
    (Done("splitSensorOutput") /\ ~ret.panic) =>
        \A kept \in {KeptLines(arg)} :
            /\ Len(ret.result) = Len(kept)
            /\ \A i \in 1..Len(ret.result) :
                   IsNaN(ret.result[i].Value)
                       <=> (ValueField(kept[i]) = "na" \/ LowerStr(ValueField(kept[i])) = "nan")

\* a "na" value field gave a NaN record, next to a record that is not NaN
C1_Witness ==
    /\ Done("splitSensorOutput") /\ ~ret.panic
    /\ Len(ret.result) = 2
    /\ \E i, j \in 1..2 :
           /\ ValueField(KeptLines(arg)[i]) = "na" /\ IsNaN(ret.result[i].Value)
           /\ ~IsNaN(ret.result[j].Value)

(***************************************************************************)
(* C2 (as stated): every line whose value field is a well-formed           *)
(* hexadecimal literal gets a record whose value is exactly the unsigned   *)
(* integer the literal denotes; the line is never skipped and no           *)
(* conversion error is reported for it.  Fails for a literal of 2^53 + 1   *)
(* (rounded) and for one of 2^64 (skipped, with an error).                 *)
(***************************************************************************)
\* the lines that yield a record if no hexadecimal literal is ever skipped
HexKeptLines(blob) ==
    SelectSeq(ScanLines(blob),
              LAMBDA l : Len(l) > 0 /\ (Convertible(ValueField(l))
                                        \/ IsHexLiteral(ValueField(l))))

HexBelow(f, w) == IsHexLiteral(f) /\ BitLen(HexValue(f)) <= w

\* the lines that yield a record: a hexadecimal literal below 2^64 always does
Hex64KeptLines(blob) ==
    SelectSeq(ScanLines(blob),
              LAMBDA l : Len(l) > 0
                         /\ (HexBelow(ValueField(l), BitSize)
                             \/ (~IsHexLiteral(ValueField(l)) /\ Convertible(ValueField(l)))))

C3_TemperatureLine ==
    /\ (Done("splitSensorOutput") /\ arg = SensorFixture[1]) =>
           ret = Returned(<<sensorData("CPU1Temp", FloatOfInt(31), "degrees C", "ok")>>,
                          NoErr)
    /\ (Done("collectSensorMonitoring") /\ arg.output = SensorFixture[1] /\ arg.err.isNil) =>
           ch = <<Metric("temperatureDesc", FloatOfInt(31), <<"CPU1Temp">>),
                  Metric("temperatureStateDesc", FloatOfInt(0), <<"CPU1Temp">>)>>

(***************************************************************************)
(* Definitions for the classification properties.                          *)
(***************************************************************************)
\* the records collectSensorMonitoring loops over in a run that reached the loop
Records == splitSensorOutput(arg.output).result

\* a "discrete" record whose name matches neither name pattern
OtherDiscrete(d) ==
    d.Type = "discrete" /\ ~Contains(d.Name, "ChassisIntru") /\ ~MatchPSStatus(d.Name)

\* the number of samples sent for the first n records: none for OtherDiscrete
RECURSIVE SamplesBefore(_, _)
SamplesBefore(recs, n) ==
    IF n = 0 THEN 0
    ELSE SamplesBefore(recs, n - 1) + (IF OtherDiscrete(recs[n]) THEN 0 ELSE 2)

\* the documented state codes
StateCode(raw) ==
    CASE raw \in {"ok", "0x0000"} -> FloatOfInt(0)
      [] raw \in {"cr", "0x0100"} -> FloatOfInt(1)
      [] raw = "nr" -> FloatOfInt(2)
      [] raw = "nc" -> FloatOfInt(3)
      [] raw = "ns" -> FloatOfInt(4)
      [] OTHER -> NaN

DefinedStates == {"ok", "cr", "nr", "nc", "ns", "0x0000", "0x0100", "na"}

\* the raw states that are not defined codes, in record order
UnknownStates(recs) ==
    LET unk == SelectSeq(recs, LAMBDA d : d.State \notin DefinedStates)
    IN  [i \in 1..Len(unk) |-> unk[i].State]

C5_ChassisIntrusion ==
    (Done("collectSensorMonitoring") /\ ret.up = 1) =>
        \A recs \in {Records} :
            \A i \in 1..Len(recs) :
                (recs[i].Type = "discrete" /\ Contains(recs[i].Name, "ChassisIntru")) =>
                    /\ SamplesBefore(recs, i) <= Len(ch)
                    /\ ch[SamplesBefore(recs, i) - 1]
                           = Metric("chassisIntrusionDesc", recs[i].Value, <<recs[i].Name>>)
                    /\ ch[SamplesBefore(recs, i)]
                           = Metric("chassisIntrusionStateDesc", StateCode(recs[i].State),
                                    <<recs[i].Name>>)

\* a name matching both patterns was exported as chassis intrusion, its state unknown
C5_Witness ==
    /\ Done("collectSensorMonitoring") /\ ret.up = 1
    /\ Len(ch) = 2 /\ ch[1].desc = "chassisIntrusionDesc"
    /\ ch[1].labels = <<"PS2StatusChassisIntru">>
    /\ Records[1].Type = "discrete" /\ Records[1].State = "0x0200"

(***************************************************************************)
(* C6: a "discrete" record whose name matches neither name pattern, and    *)
(* any record whose unit is not a recognised unit string, is exported with *)
(* the generic sensor value and sensor state samples, labelled with name   *)
(* and type.  Fails: nothing is sent for such a "discrete" record.         *)
(***************************************************************************)
RecognisedUnits == {"RPM", "degrees C", "Ampers", "Volts", "Watts", "discrete"}

C6_GenericFallback ==
    (Done("collectSensorMonitoring") /\ ret.up = 1) =>
        \A recs \in {Records} :
            /\ Len(ch) = 2 * Len(recs)
            /\ \A i \in 1..Len(recs) :
                   (OtherDiscrete(recs[i]) \/ recs[i].Type \notin RecognisedUnits) =>
                       /\ ch[2 * i - 1] = Metric("sensorValueDesc", recs[i].Value,
                                                 <<recs[i].Name, recs[i].Type>>)
                       /\ ch[2 * i] = Metric("sensorStateDesc", StateCode(recs[i].State),
                                             <<recs[i].Name, recs[i].Type>>)

(***************************************************************************)
(* C7: the name of every record splitSensorOutput returns contains no      *)
(* whitespace character, neither a space nor a tab.  Fails: a tab in the   *)
(* name column stays in the name.                                          *)
(***************************************************************************)
C7_NameWhitespaceStripped ==
    (Done("splitSensorOutput") /\ ~ret.panic) =>
        \A i \in 1..Len(ret.result) :
            ~Contains(ret.result[i].Name, " ") /\ ~Contains(ret.result[i].Name, "\t")

(***************************************************************************)
(* C8: getChassisPowerState returns 0 and a nil error for the text         *)
(* "Chassis Power is off", and 1 and a nil error for the text              *)
(* "Chassis Power is on".                                                  *)
(***************************************************************************)
C8_PowerStateOffOn ==
    Done("getChassisPowerState") =>
        /\ arg = "Chassis Power is off" => ret = Returned(0, NoErr)
        /\ arg = "Chassis Power is on" => ret = Returned(1, NoErr)

C8_Witness ==
    /\ Done("getChassisPowerState")
    /\ arg = "Chassis Power is on" /\ ret.result = 1 /\ ret.err.isNil /\ ~ret.panic

(***************************************************************************)
(* Firmware text as the claims read it.                                    *)
(***************************************************************************)
\* the label of a firmware line: the text before its first ':', spaces removed
FwumLabel(line) == RemoveSpaces(Take(line, IndexByte(line, ":") - 1))

\* the right side of a firmware line: the text after its first ':', spaces removed
FwumRight(line) == RemoveSpaces(Drop(line, IndexByte(line, ":")))

\* digits with at most one decimal point and a digit before it
IsPlainDecimal(s) ==
    /\ s # "" /\ IsDigit(Ch(s, 1))
    /\ \A i \in 1..Len(s) : IsDigit(Ch(s, i)) \/ Ch(s, i) = "."
    /\ \A i, j \in 1..Len(s) : (Ch(s, i) = "." /\ Ch(s, j) = ".") => i = j

\* the integer that a string of decimal digits denotes
RECURSIVE DecimalValue(_)
DecimalValue(d) ==
    IF d = "" THEN 0 ELSE 10 * DecimalValue(Take(d, Len(d) - 1)) + DigitVal(Ch(d, Len(d)))

\* the digits before and after the decimal point of a plain decimal
WholePart(s) == IF IndexByte(s, ".") > 0 THEN Take(s, IndexByte(s, ".") - 1) ELSE s

FractionPart(s) == IF IndexByte(s, ".") > 0 THEN Drop(s, IndexByte(s, ".")) ELSE ""

\* every line with a ':' has a right side that reads as a number
NumericRightSides(lines) ==
    \A i \in 1..Len(lines) :
        IndexByte(lines[i], ":") > 0 => ParseFloat(FwumRight(lines[i])).ok

(***************************************************************************)
(* C9: for a firmware text in which every line with a ':' has a numeric    *)
(* right side, splitFwumOutput returns a nil error and one entry per line, *)
(* entry i from line i: a line "<label> : <number>" gives the label with   *)
(* its spaces removed and the number; a number written as plain decimal    *)
(* digits is the number those digits denote.                               *)
(***************************************************************************)
C9_FwumEntryPerLine ==
    Done("splitFwumOutput") =>
        \A lines \in {ScanLines(arg)} :
            NumericRightSides(lines) =>
                /\ ~ret.panic /\ ret.err.isNil
                /\ Len(ret.result) = Len(lines)
                /\ \A i \in 1..Len(lines) :
                       IndexByte(lines[i], ":") > 0 =>
                           \A right \in {FwumRight(lines[i])} :
                               /\ ret.result[i].Name = FwumLabel(lines[i])
                               /\ ret.result[i].Value = ParseFloat(right).v
                               /\ IsPlainDecimal(right) =>
                                      /\ ret.result[i].Value.k = "num"
                                      /\ ~ret.result[i].Value.neg
                                      /\ BitsValue(ToBits(ret.result[i].Value.int))
                                             = DecimalValue(WholePart(right))
                                      /\ ret.result[i].Value.frac
                                             = StripTrailingZeros(FractionPart(right))

C9_Witness ==
    /\ Done("splitFwumOutput")
    /\ arg = JoinLines(FwumFixture)
    /\ ret.err.isNil /\ Len(ret.result) = 7
    /\ ret.result[5] = fwumData("ManufacturerId", FloatOfInt(10876))
    /\ ret.result[7].Value.frac = "76"

(***************************************************************************)
(* The option list as the claims read it.                                  *)
(***************************************************************************)
OptionFlags == <<"-I", "-L", "-U", "-P", "-N">>

\* option k of a configuration is set
OptionSet(config, k) ==
    CASE k = 1 -> config.Interface # ""
      [] k = 2 -> config.Privilege # ""
      [] k = 3 -> config.User # ""
      [] k = 4 -> config.Password # ""
      [] k = 5 -> config.Timeout # 0

\* text is the decimal number of the integer n
IsDecimalOf(text, n) ==
    IF n < 0
    THEN /\ Len(text) >= 2 /\ Ch(text, 1) = "-" /\ Ch(text, 2) # "0"
         /\ \A i \in 2..Len(text) : IsDigit(Ch(text, i))
         /\ DecimalValue(Drop(text, 1)) = -n
    ELSE /\ Len(text) >= 1 /\ (Ch(text, 1) # "0" \/ text = "0")
         /\ \A i \in 1..Len(text) : IsDigit(Ch(text, i))
         /\ DecimalValue(text) = n

\* text is the value of option k of a configuration
IsOptionValue(config, k, text) ==
    CASE k = 1 -> text = config.Interface
      [] k = 2 -> text = config.Privilege
      [] k = 3 -> text = config.User
      [] k = 4 -> text = config.Password
      [] k = 5 -> IsDecimalOf(text, config.Timeout)

\* the number of options set among the first k
OptionsSetUpTo(config, k) == Cardinality({j \in 1..k : OptionSet(config, j)})

(***************************************************************************)
(* C10: ipmitoolConfig lists the options in the order -I, -L, -U, -P, -N,  *)
(* each flag followed by its value and present exactly when the option is  *)
(* non-empty (non-zero for the timeout), the timeout as its decimal        *)
(* number; privilege administrator, user example_user, password            *)
(* example_pass and timeout 5 give                                         *)
(* -L administrator -U example_user -P example_pass -N 5.                  *)
(***************************************************************************)
C10_OptionOrder ==
    Done("ipmitoolConfig") =>
        /\ Len(ret) = 2 * OptionsSetUpTo(arg, 5)
        /\ \A k \in 1..5 :
               OptionSet(arg, k) =>
                   /\ ret[2 * OptionsSetUpTo(arg, k) - 1] = OptionFlags[k]
                   /\ IsOptionValue(arg, k, ret[2 * OptionsSetUpTo(arg, k)])
        /\ arg = IPMIConfig("", "administrator", "example_user", "example_pass", 5) =>
               ret = <<"-L", "administrator", "-U", "example_user",
                       "-P", "example_pass", "-N", "5">>

C10_Witness ==
    /\ Done("ipmitoolConfig")
    /\ arg = IPMIConfig("", "administrator", "example_user", "example_pass", 5)
    /\ ret = <<"-L", "administrator", "-U", "example_user", "-P", "example_pass", "-N", "5">>

(***************************************************************************)
(* A scrape as the claims read it.                                         *)
(***************************************************************************)
\* the ipmi_up samples of the run, in the order they were sent
UpSamples == SelectSeq(ch, LAMBDA m : m.desc = "upDesc")

\* the collectors Collect knows
KnownCollectors == {"sensor", "fru", "lan", "bmc", "fwum", "dcmi-power"}

\* what the parser of a collector returns for an output
ParseOf(collector, output) ==
    CASE collector = "sensor" -> splitSensorOutput(output)
      [] collector = "fru" -> splitFruOutput(output)
      [] collector = "lan" -> splitLANOutput(output)
      [] collector = "bmc" -> splitBmcOutput(output)
      [] collector = "fwum" -> splitFwumOutput(output)
      [] collector = "dcmi-power" -> splitDcmiPowerOutput(output)

ParsedWithoutError(parsed) == ~parsed.panic /\ parsed.err.isNil

\* the data of a collector was retrieved: its command succeeded and its
\* output parsed without error
Retrieved(collector, env) ==
    /\ collector \in KnownCollectors
    /\ env.err.isNil
    /\ ParsedWithoutError(ParseOf(collector, env.output))

(***************************************************************************)
(* C11: a Collect run emits, for each collector listed in the              *)
(* configuration, exactly one ipmi_up sample labelled with its name, whose *)
(* value is 1 if and only if the collector's command succeeded and its     *)
(* output parsed without error, and 0 otherwise.                           *)
(* Stated for the runs that return; fails for fwum, whose command error   *)
(* is dropped.                                                             *)
(***************************************************************************)
C11_UpIffRetrieved ==
    (Done("Collect") /\ ~ret.panic) =>
        \A ups \in {UpSamples} :
            /\ Len(ups) = Len(arg.collectors)
            /\ \A i \in 1..Len(ups) :
                   /\ ups[i].labels = <<arg.collectors[i]>>
                   /\ ups[i].value
                          = FloatOfInt(IF Retrieved(arg.collectors[i], arg.runs[i])
                                       THEN 1 ELSE 0)

(***************************************************************************)
(* C12: in a Collect run, an ipmi_up sample of value 0 follows no data     *)
(* sample of its collector: the sample sent just before it, if any, is the *)
(* ipmi_up sample of the collector before.                                 *)
(***************************************************************************)
C12_NoDataWhenDown ==
    Done("Collect") =>
        \A p \in 1..Len(ch) :
            (ch[p].desc = "upDesc" /\ ch[p].value = FloatOfInt(0)) =>
                (p = 1 \/ ch[p - 1].desc = "upDesc")

\* a collector that exported its data is followed by one whose parse failed
C12_Witness ==
    /\ Done("Collect")
    /\ arg.collectors = <<"bmc", "sensor">>
    /\ arg.runs[2] = Ran(JoinLines(<<"Fan1 | abc | RPM | ok", SensorFixture[3]>>), NoErr)
    /\ Len(ch) >= 5
    /\ ch[3] = Metric("upDesc", FloatOfInt(1), <<"bmc">>)
    /\ ch[4] = Metric("upDesc", FloatOfInt(0), <<"sensor">>)

(***************************************************************************)
(* C14: when a non-empty sensor line has fewer than 4 '|'-separated        *)
(* fields, splitSensorOutput does not fault and reports the malformed line *)
(* as its error result.                                                    *)
(* Fails: indexing the missing field faults.                               *)
(***************************************************************************)
C14_MalformedLineReported ==
    Done("splitSensorOutput") =>
        ((\E i \in 1..Len(ScanLines(arg)) :
              Len(ScanLines(arg)[i]) > 0 /\ Len(Fields(ScanLines(arg)[i])) < 4)
            => (~ret.panic /\ ~ret.err.isNil))

(***************************************************************************)
(* C15: when a non-empty FRU line contains no ':', splitFruOutput does not *)
(* fault and reports the malformed line as its error result.               *)
(* Fails: indexing the missing right-hand side faults.                     *)
(***************************************************************************)
C15_FruMissingColonReported ==
    Done("splitFruOutput") =>
        ((\E i \in 1..Len(ScanLines(arg)) :
              Len(ScanLines(arg)[i]) > 0 /\ IndexByte(ScanLines(arg)[i], ":") = 0)
            => (~ret.panic /\ ~ret.err.isNil))

(***************************************************************************)
(* C16: if no line of the input matches the chassis power pattern,         *)
(* getChassisPowerState returns 0 with a nil error and does not fault,     *)
(* also when the input has non-empty lines that do not match.              *)
(* Fails: a non-empty line that does not match faults.                     *)
(***************************************************************************)
C16_DefaultWhenNoMatch ==
    Done("getChassisPowerState") =>
        ((\A i \in 1..Len(ScanLines(arg)) : ~ipmiCurrentPowerRegex(ScanLines(arg)[i]).matched)
            => ret = Returned(0, NoErr))

(***************************************************************************)
(* The parsers.                                                            *)
(***************************************************************************)
RecordParsers ==
    {"splitSensorOutput", "splitFwumOutput", "splitFruOutput", "splitLANOutput",
     "splitBmcOutput", "splitDcmiPowerOutput"}

Parsers == RecordParsers \cup {"getChassisPowerState"}

(***************************************************************************)
(* C17: for the empty text every parser returns without faulting and with  *)
(* a nil error, the six record parsers an empty sequence and               *)
(* getChassisPowerState the ordinal 0; and the error a parse call returns  *)
(* is nil or the error of one conversion.                                  *)
(***************************************************************************)
C17_EmptyText ==
    (pc = "done" /\ op \in Parsers) =>
        /\ (arg = "" /\ op \in RecordParsers) => ret = Returned(<<>>, NoErr)
        /\ (arg = "" /\ op = "getChassisPowerState") => ret = Returned(0, NoErr)
        /\ ret.err.isNil \/ (ret.err.func = "ParseFloat" /\ ~ParseFloat(ret.err.input).ok)

C17_Witness ==
    /\ Done("splitFwumOutput")
    /\ arg = ""
    /\ ret = Returned(<<>>, NoErr)

(***************************************************************************)
(* C18 (as stated): in splitFwumOutput the first line that contains ':'    *)
(* and whose right side, the text after its first ':', does not parse as a *)
(* number ends the call: the error is not nil and the result has entries   *)
(* only for the lines before that line.                                    *)
(* Fails for a right side with a further ':' ("1:30"): only the text up to *)
(* the second ':' is parsed.                                               *)
(***************************************************************************)
FwumFails(line) == IndexByte(line, ":") > 0 /\ ~ParseFloat(FwumRight(line)).ok

C18_FwumTerminalError ==
    Done("splitFwumOutput") =>
        \A lines \in {ScanLines(arg)} :
            \A i \in 1..Len(lines) :
                (FwumFails(lines[i]) /\ \A j \in 1..(i - 1) : ~FwumFails(lines[j])) =>
                    /\ ~ret.panic
                    /\ ~ret.err.isNil
                    /\ Len(ret.result) <= i - 1

(***************************************************************************)
(* Sensor lines as the claims read them.                                   *)
(***************************************************************************)
\* at least four fields and a value field that converts
WellFormed(line) == Len(Fields(line)) >= 4 /\ Convertible(ValueField(line))

\* a value field that is neither "na" nor an unsigned integer nor a float
FailsConversion(line) == Len(Fields(line)) >= 2 /\ ~Convertible(ValueField(line))

WellFormedLines(blob) == SelectSeq(ScanLines(blob), LAMBDA l : Len(l) > 0 /\ WellFormed(l))

C20_FirstConversionError ==
    (Done("splitSensorOutput") /\ ~ret.panic) =>
        \A lines \in {ScanLines(arg)} :
            \A i \in 1..Len(lines) :
                (/\ Len(lines[i]) > 0 /\ FailsConversion(lines[i])
                 /\ \A j \in 1..(i - 1) : Len(lines[j]) = 0 \/ ~FailsConversion(lines[j]))
                    => ret.err = Err("ParseFloat", ValueField(lines[i]))

(***************************************************************************)
(* Texts and parsers as the claims read them.                              *)
(***************************************************************************)
ParserOf(name, text) ==
    CASE name = "splitSensorOutput" -> splitSensorOutput(text)
      [] name = "splitFwumOutput" -> splitFwumOutput(text)
      [] name = "splitFruOutput" -> splitFruOutput(text)
      [] name = "splitLANOutput" -> splitLANOutput(text)
      [] name = "splitBmcOutput" -> splitBmcOutput(text)
      [] name = "splitDcmiPowerOutput" -> splitDcmiPowerOutput(text)
      [] name = "getChassisPowerState" -> getChassisPowerState(text)

NonEmptyLines(text) == SelectSeq(ScanLines(text), LAMBDA l : Len(l) > 0)

\* the text without its empty lines
WithoutEmptyLines(text) == JoinLines(NonEmptyLines(text))

\* s without its leading white space
RECURSIVE TrimLeft(_)
TrimLeft(s) == IF s # "" /\ IsSpace(Ch(s, 1)) THEN TrimLeft(Drop(s, 1)) ELSE s

HasColon(line) == IndexByte(line, ":") > 0

(***************************************************************************)
(* C21: every parser skips empty lines: its result for a text is its       *)
(* result for the same text with the empty lines removed.                  *)
(* Fails for splitFwumOutput, which appends an entry for every line.       *)
(***************************************************************************)
C21_BlankLinesSkipped ==
    (pc = "done" /\ op \in Parsers) => ret = ParserOf(op, WithoutEmptyLines(arg))

(***************************************************************************)
(* C22: splitFwumOutput, and splitFruOutput for the lines other than the   *)
(* board manufacture date, split a line at its first ':' only: the name is *)
(* the text before it and the value the whole text after it, spaces        *)
(* removed, further ':' included.                                          *)
(* Fails: the line is split at every ':' and the second field is taken.    *)
(***************************************************************************)
C22_FirstColonSplit ==
    /\ (Done("splitFruOutput") /\ ~ret.panic) =>
           \A kept \in {NonEmptyLines(arg)} :
               /\ Len(ret.result) = Len(kept)
               /\ \A i \in 1..Len(kept) :
                      (HasColon(kept[i]) /\ FwumLabel(kept[i]) # "BoardMfgDate") =>
                          ret.result[i] = fruData(FwumLabel(kept[i]), FwumRight(kept[i]))
    /\ Done("splitFwumOutput") =>
           \A lines \in {ScanLines(arg)} :
               \A i \in 1..Len(ret.result) :
                   HasColon(lines[i]) =>
                       \A f \in {ParseFloat(FwumRight(lines[i]))} :
                           /\ f.ok
                           /\ ret.result[i] = fwumData(FwumLabel(lines[i]), f.v)

(***************************************************************************)
(* C23: every FRU line with the label "Board Mfg Date", indented or not,   *)
(* gives one record named "BoardMfgDate" whose value is the whole text     *)
(* after the label's colon, with its colons and inner spaces.              *)
(* Fails for a line that starts in column 0.                               *)
(***************************************************************************)
C23_BoardMfgDate ==
    (Done("splitFruOutput") /\ ~ret.panic) =>
        \A kept \in {NonEmptyLines(arg)} :
            \A i \in 1..Len(kept) :
                (HasColon(kept[i]) /\ FwumLabel(kept[i]) = "BoardMfgDate") =>
                    /\ i <= Len(ret.result)
                    /\ ret.result[i] =
                           fruData("BoardMfgDate",
                                   TrimLeft(Drop(kept[i], IndexByte(kept[i], ":"))))

(***************************************************************************)
(* C24: the first line that matches the chassis power pattern decides the  *)
(* result of getChassisPowerState: 0 if it reports off, also when a later  *)
(* line reports on, and 1 if it reports on.                                *)
(* Fails: an "off" line does not end the scan.                             *)
(***************************************************************************)
C24_FirstMatchDecides ==
    (Done("getChassisPowerState") /\ ~ret.panic) =>
        \A lines \in {ScanLines(arg)} :
            \A i \in 1..Len(lines) :
                \A m \in {ipmiCurrentPowerRegex(lines[i])} :
                    (/\ m.matched
                     /\ \A j \in 1..(i - 1) : ~ipmiCurrentPowerRegex(lines[j]).matched)
                        => ret = Returned(IF m.value = "on" THEN 1 ELSE 0, NoErr)

(***************************************************************************)
(* The records of LAN and BMC lines as the claims read them: one record    *)
(* for every non-empty line that matches a pattern, named by the first     *)
(* pattern that matches.                                                   *)
(***************************************************************************)
RECURSIVE FirstLanPattern(_, _)
FirstLanPattern(line, k) ==
    IF k > Len(LanNames) THEN 0
    ELSE IF LanRegex(line, k).matched THEN k
    ELSE FirstLanPattern(line, k + 1)

LanRecordOf(line, k) ==
    IF Len(line) = 0 \/ k = 0 THEN <<>>
    ELSE <<lanData(LanNames[k], LanValue(k, LanRegex(line, k).value))>>

RECURSIVE LanRecords(_)
LanRecords(lines) ==
    IF lines = <<>> THEN <<>>
    ELSE LanRecordOf(Head(lines), FirstLanPattern(Head(lines), 1)) \o LanRecords(Tail(lines))

BmcRecordOf(line) ==
    IF Len(line) = 0 THEN <<>>
    ELSE IF firmwareRevRegex(line).matched
    THEN <<bmcData("FirmwareRevision", firmwareRevRegex(line).value)>>
    ELSE IF ipmiVersionRegex(line).matched
    THEN <<bmcData("IPMIVersion", ipmiVersionRegex(line).value)>>
    ELSE IF manufacturerRegex(line).matched
    THEN <<bmcData("Manufacturer", manufacturerRegex(line).value)>>
    ELSE <<>>

RECURSIVE BmcRecords(_)
BmcRecords(lines) ==
    IF lines = <<>> THEN <<>> ELSE BmcRecordOf(Head(lines)) \o BmcRecords(Tail(lines))

(***************************************************************************)
(* C25: in splitLANOutput and splitBmcOutput every non-empty line that     *)
(* matches a pattern gives exactly one record, in line order, whatever     *)
(* matching lines precede it.                                              *)
(* Fails: a matching line of the last pattern ends the scan.               *)
(***************************************************************************)
C25_EveryMatchingLine ==
    /\ Done("splitLANOutput") => ret = Returned(LanRecords(ScanLines(arg)), NoErr)
    /\ Done("splitBmcOutput") => ret = Returned(BmcRecords(ScanLines(arg)), NoErr)

(***************************************************************************)
(* The power readings of DCMI lines as the claims read them.               *)
(***************************************************************************)
\* the patterns a line matches
DcmiMatching(line) == {k \in 1..Len(DcmiNames) : DcmiRegex(line, k).matched}

DcmiRecordOf(k, f) == IF f.ok THEN <<dcmiPowerData(DcmiNames[k], f.v)>> ELSE <<>>

\* the record of a line: that of its pattern, if its value is a number
DcmiRecord(line, matching) ==
    IF Len(line) = 0 \/ matching = {} THEN <<>>
    ELSE LET k == CHOOSE j \in matching : TRUE
         IN  DcmiRecordOf(k, ParseFloat(DcmiRegex(line, k).value))

RECURSIVE DcmiRecords(_)
DcmiRecords(lines) ==
    IF lines = <<>> THEN <<>>
    ELSE DcmiRecord(Head(lines), DcmiMatching(Head(lines))) \o DcmiRecords(Tail(lines))

(***************************************************************************)
(* C26: in splitDcmiPowerOutput every line matches at most one of the four *)
(* patterns and gives at most one record, the records are in line order,   *)
(* and a text without a matching line gives the empty sequence and a nil   *)
(* error.                                                                  *)
(***************************************************************************)
C26_DcmiAtMostOne ==
    Done("splitDcmiPowerOutput") =>
        \A lines \in {ScanLines(arg)} :
            /\ \A i \in 1..Len(lines) : Cardinality(DcmiMatching(lines[i])) <= 1
            /\ ~ret.panic
            /\ ret.result = DcmiRecords(lines)
            /\ (\A i \in 1..Len(lines) : DcmiMatching(lines[i]) = {}) =>
                   ret = Returned(<<>>, NoErr)

\* a minimum line and then an average line: two records in that order
C26_Witness ==
    /\ Done("splitDcmiPowerOutput")
    /\ Len(ScanLines(arg)) = 2
    /\ DcmiMatching(ScanLines(arg)[1]) = {2}
    /\ DcmiMatching(ScanLines(arg)[2]) = {1}
    /\ Len(ret.result) = 2
    /\ ret.result[1].Name = "Min power consumption"
    /\ ret.result[2].Name = "Avg power consumption"

(***************************************************************************)
(* The samples of a scrape as the claims read them.                        *)
(***************************************************************************)
SensorDescs ==
    {"sensorValueDesc", "sensorStateDesc", "temperatureDesc", "temperatureStateDesc",
     "fanSpeedDesc", "fanSpeedStateDesc", "currentDesc", "currentStateDesc",
     "voltageDesc", "voltageStateDesc", "powerDesc", "powerStateDesc",
     "chassisIntrusionDesc", "chassisIntrusionStateDesc",
     "chassisPowerDeviceDesc", "chassisPowerDeviceStateDesc"}

\* the descriptors of the data samples of a collector
CollectorDescs(collector) ==
    CASE collector = "sensor" -> SensorDescs
      [] collector = "fru" -> {"fruInfo"}
      [] collector = "lan" -> {"lanInfo"}
      [] collector = "bmc" -> {"bmcInfo"}
      [] collector = "fwum" -> {"fwumInfo"}
      [] collector = "dcmi-power" -> {"powerConsumptionDesc"}
      [] OTHER -> {}

\* the number of ipmi_up samples sent before sample p
UpsBefore(p) == Cardinality({q \in 1..(p - 1) : ch[q].desc = "upDesc"})

\* `ipmitool power status` succeeded and its output parsed without error
PowerRetrieved(env) ==
    env.err.isNil /\ ParsedWithoutError(getChassisPowerState(env.output))

(***************************************************************************)
(* C28: the samples of one Collect run are, for every configured collector *)
(* in configuration order, its data samples and then its one ipmi_up       *)
(* sample; then the chassis power state, collected once after all          *)
(* collectors whatever they did; then one scrape duration sample, the last *)
(* sample of the run.                                                      *)
(* Fails when a parser faults: the run ends at the fault and only the      *)
(* duration sample follows.                                                *)
(***************************************************************************)
C28_SampleShape ==
    Done("Collect") =>
        \A n \in {Len(ch)} :
            /\ n >= 1
            /\ ch[n].desc = "durationDesc"
            /\ UpsBefore(n) = Len(arg.collectors)
            /\ \A p \in 1..(n - 1) :
                   \A c \in {UpsBefore(p) + 1} :
                       \/ /\ ch[p].desc = "upDesc"
                          /\ c <= Len(arg.collectors)
                          /\ ch[p].labels = <<arg.collectors[c]>>
                       \/ /\ ch[p].desc = "chassisPowerStateDesc"
                          /\ p = n - 1
                       \/ /\ c <= Len(arg.collectors)
                          /\ ch[p].desc \in CollectorDescs(arg.collectors[c])
            /\ PowerRetrieved(arg.power) =>
                   (n >= 2 /\ ch[n - 1].desc = "chassisPowerStateDesc")

(***************************************************************************)
(* C27: parse calls made concurrently by several scrape requests do not    *)
(* interfere: however their steps interleave, every call that has returned *)
(* has returned what the same call returns when it runs alone.             *)
(***************************************************************************)
C27_NoInterference ==
    \A p \in Requests :
        pc[p].at = "return" => ret[p] = ParserOf(op[p], arg[p])

\* the second request has gone from call to return while the first was in
\* the middle of its scan
C27_Witness ==
    /\ pc[1] = [at |-> "scan", line |-> 2]
    /\ pc[2].at = "return"
    /\ op[1] = "splitSensorOutput"
    /\ op[2] = "splitFwumOutput"
    /\ ~ret[2].err.isNil
    /\ ret[2] = splitFwumOutput(arg[2])

====
